---- MODULE Spec2Model ----
(***************************************************************************)
(* A model of the IP resolution engine of hickory-dns                      *)
(* (crates/resolver/src/lookup_ip.rs): LookupIpFuture, its poll loop over  *)
(* the candidate names, and the five address-family strategies.            *)
(*                                                                         *)
(* The future is polled by an executor (action Poll, one whole call of     *)
(* LookupIpFuture::poll); the lookups it has handed to the caching client  *)
(* complete in steps of the environment (action ClientComplete).  A client *)
(* lookup may also be ready at the poll that creates it, so poll is a      *)
(* relation: the set of states one call can leave the future in.  The      *)
(* hosts table answers synchronously.  Variables marked history record     *)
(* what happened and are read by no handler.                               *)
(***************************************************************************)
EXTENDS Integers, Sequences, FiniteSets, TLC

\* ------------------------------------------------------------------ bounds
MaxNames == 2       \* longest list of candidate names
MaxRecs  == 2       \* most records in one answer of the client

\* --------------------------------------------------------------- constants
MAX_TTL  == 86400
RespTtl  == 86400
LocalAddr == 1
FallbackAddr == 9
HostsAddr == 7

NameSet    == {"a", "b"}
EmptyName  == ""
HostsName  == "a"
RecordTypes == {"A", "AAAA"}
ErrNoNames == "can not lookup IPs for no names"
HandleErrors == {"forced test failure", "timed out"}

\* ------------------------------------------------------------- data model
SeqsUpTo(S, n) == UNION {[1..k -> S] : k \in 0..n}

RDataOf(t, a) == [rtype |-> t, addr |-> a]

from_rdata(name, ttl, rdata) == [name |-> name, ttl |-> ttl, rdata |-> rdata]

QueryOf(name, t) == [name |-> name, rtype |-> t]

QueryNew == [name |-> EmptyName, rtype |-> "DEFAULT"]

LookupOf(q, recs) == [query |-> q, records |-> recs]

is_empty(lookup) == Len(lookup.records) = 0

Ok(lookup) == [ok |-> TRUE, lookup |-> lookup, err |-> ""]

Err(e) == [ok |-> FALSE, lookup |-> LookupOf(QueryNew, <<>>), err |-> e]

None == [some |-> FALSE, val |-> RDataOf("A", 0)]

Some(v) == [some |-> TRUE, val |-> v]

\* the addresses a LookupIp yields: the A and AAAA records, in order
RECURSIVE LookupIpIter(_)
LookupIpIter(recs) ==
  IF recs = <<>> THEN <<>>
  ELSE IF Head(recs).rdata.rtype \in {"A", "AAAA"}
       THEN <<Head(recs).rdata>> \o LookupIpIter(Tail(recs))
       ELSE LookupIpIter(Tail(recs))

append(self, other) ==
  LookupOf(self.query, self.records \o other.records)

\* ---------------------------------------------------------- environment
\* what a record of an answer to a query of type t can hold
AnswerRData(t) == {RDataOf(t, LocalAddr), RDataOf("CNAME", 0)}

\* the outcomes a handle can give for one query: any answer or error, or,
\* for a handle that always fails, only errors
Handles == {"any", "failing"}

HandleOutcomes(h, name, t) ==
  {Ok(LookupOf(QueryOf(name, t), rs)) :
      rs \in IF h = "failing" THEN {}
             ELSE SeqsUpTo({from_rdata(name, RespTtl, rd) : rd \in AnswerRData(t)}, MaxRecs)}
  \cup {Err(e) : e \in HandleErrors}

\* the hosts tables: no table, a table with an IPv4 address for HostsName, or
\* a table with an IPv4 and an IPv6 address for it
HostsEntries == {[name |-> HostsName, rtype |-> t] : t \in RecordTypes}

HostsChoices ==
  {[some |-> FALSE, table |-> {}]}
  \cup {[some |-> TRUE, table |-> {e \in HostsEntries : e.rtype \in ts}] :
          ts \in {{"A"}, {"A", "AAAA"}}}

lookup_static_host(table, q) ==
  IF q \in table
    THEN Some(LookupOf(q, <<from_rdata(q.name, MAX_TTL, RDataOf(q.rtype, HostsAddr))>>))
    ELSE [some |-> FALSE, val |-> LookupOf(QueryNew, <<>>)]

FallbackChoices == {None, Some(RDataOf("A", FallbackAddr))}

\* ----------------------------------------------------------------- state
VARIABLES
  names,            \* LookupIpFuture.names: the candidate names not yet tried
  strategy,         \* LookupIpFuture.strategy
  hosts,            \* LookupIpFuture.hosts
  finally_ip_addr,  \* LookupIpFuture.finally_ip_addr
  query,            \* LookupIpFuture.query: the future of the current attempt
  result,           \* what poll returned last: Pending or Ready(output)
  names0,           \* history: the names given to lookup()
  fallback0,        \* history: the fallback given to lookup()
  attempts,         \* history: the strategic lookups started (position in names0, name)
  log,              \* history: hosts consultations and client calls, in order
  last,             \* history: what poll decided when it last found the query ready
  handle            \* the handle under LookupIpFuture.client_cache

VARIABLES
  requests,         \* the futures returned by QuicClientStream::send_message
  streams,          \* the bidirectional streams opened on the QUIC connection
  calls             \* history: the QuicStream methods called directly, with what they returned

VARIABLES
  doq_error,        \* a value at the DoqErrorCode / VarInt conversions
  conversions       \* history: the conversions applied to it, in order

VARIABLES
  handles,          \* the QuicClientStream handles: the first one and its clones
  connection,       \* the QUIC connection the handles share
  last_call         \* history: the last method called on a handle, and how it ended

VARIABLES
  connect           \* the future QuicClientStreamBuilder::connect_inner

VARIABLES
  ip_iter           \* an iterator over the addresses of a LookupIp

lookup_vars == <<names, strategy, hosts, finally_ip_addr, query, result,
                 names0, fallback0, attempts, log, last, handle>>

doq_vars == <<requests, streams, calls>>

code_vars == <<doq_error, conversions>>

client_vars == <<handles, connection, last_call>>

connect_vars == <<connect>>

iter_vars == <<ip_iter>>

vars == <<lookup_vars, doq_vars, code_vars, client_vars, connect_vars, iter_vars>>

\* client.lookup(query, options): the outcomes it can complete with
ClientOutcomes(name, t) == HandleOutcomes(handle, name, t)

Pending == [ready |-> FALSE, out |-> Err("")]

Ready(out) == [ready |-> TRUE, out |-> out]

\* the state of one hosts_lookup future
SubNew == [st |-> "new", via |-> "none", out |-> Err("")]

SubWait == [st |-> "wait", via |-> "client", out |-> Err("")]

SubDone(via, out) == [st |-> "done", via |-> via, out |-> out]

InitQuery_OkEmpty ==
  [kind |-> "init", name |-> EmptyName, sel |-> "none", order |-> <<>>,
   sub |-> [A |-> SubNew, AAAA |-> SubNew],
   done |-> TRUE, out |-> Ok(LookupOf(QueryNew, <<>>))]

\* future::err(empty), the query of a freshly built LookupIpFuture
InitQuery ==
  [kind |-> "init", name |-> EmptyName, sel |-> "none", order |-> <<>>,
   sub |-> [A |-> SubNew, AAAA |-> SubNew],
   done |-> TRUE, out |-> Err(ErrNoNames)]

\* the future strategic_lookup(name, ...) before its first poll
NewQuery(name) ==
  [kind |-> "strat", name |-> name, sel |-> "none", order |-> <<>>,
   sub |-> [A |-> SubNew, AAAA |-> SubNew],
   done |-> FALSE, out |-> Err("")]

OutcomeKind(out) ==
  IF ~out.ok THEN "err" ELSE IF is_empty(out.lookup) THEN "empty" ELSE "nonempty"

\* the mutable part of the state, as one record the handlers transform
St ==
  [names |-> names, finally_ip_addr |-> finally_ip_addr, query |-> query,
   result |-> result, attempts |-> attempts, log |-> log, last |-> last]

SetSub(S, t, sub) ==
  [S EXCEPT !.query.sub[t] = sub,
            !.query.order = IF sub.st = "done" THEN Append(@, t) ELSE @]

SetOut(S, out) == [S EXCEPT !.query.done = TRUE, !.query.out = out]

\* ------------------------------------------------------------- strategies
\* an entry of the log: the query, who was asked, and the attempt it belongs to
LogEntry(S, q, via) == [q |-> q, via |-> via, att |-> Len(S.attempts)]

hosts_lookup_NoShortCircuit(S, t) ==
  LET q == QueryOf(S.query.name, t)
      sub == S.query.sub[t]
      consulted == IF hosts.some THEN <<LogEntry(S, q, "hosts")>> ELSE <<>>
  IN IF sub.st # "new" THEN {S}
     ELSE LET T == [S EXCEPT !.log = @ \o consulted \o <<LogEntry(S, q, "client")>>]
          IN {SetSub(T, t, SubWait)}
             \cup {SetSub(T, t, SubDone("client", o)) : o \in ClientOutcomes(q.name, t)}

hosts_lookup_ByName(S, t) ==
  LET q == QueryOf(S.query.name, t)
      sub == S.query.sub[t]
      named == {e \in hosts.table : e.name = q.name}
      hit == IF named = {} THEN lookup_static_host(hosts.table, q)
             ELSE lookup_static_host(hosts.table, CHOOSE e \in named : TRUE)
      consulted == IF hosts.some THEN <<LogEntry(S, q, "hosts")>> ELSE <<>>
  IN IF sub.st # "new" THEN {S}
     ELSE IF hosts.some /\ hit.some
       THEN {[SetSub(S, t, SubDone("hosts", Ok(hit.val))) EXCEPT !.log = @ \o consulted]}
       ELSE LET T == [S EXCEPT !.log = @ \o consulted \o <<LogEntry(S, q, "client")>>]
            IN {SetSub(T, t, SubWait)}
               \cup {SetSub(T, t, SubDone("client", o)) : o \in ClientOutcomes(q.name, t)}

\* one poll of the future hosts_lookup(Query::query(name, t), ...)
hosts_lookup(S, t) ==
  LET q == QueryOf(S.query.name, t)
      sub == S.query.sub[t]
      hit == lookup_static_host(hosts.table, q)
      consulted == IF hosts.some THEN <<LogEntry(S, q, "hosts")>> ELSE <<>>
  IN IF sub.st # "new" THEN {S}
     ELSE IF hosts.some /\ hit.some
       THEN {[SetSub(S, t, SubDone("hosts", Ok(hit.val))) EXCEPT !.log = @ \o consulted]}
       ELSE LET T == [S EXCEPT !.log = @ \o consulted \o <<LogEntry(S, q, "client")>>]
            IN {SetSub(T, t, SubWait)}
               \cup {SetSub(T, t, SubDone("client", o)) : o \in ClientOutcomes(q.name, t)}

SubReady(S, t) == S.query.sub[t].st = "done"

Finish(S, t) == IF SubReady(S, t) THEN SetOut(S, S.query.sub[t].out) ELSE S

ipv4_only_AlsoV6(S) ==
  {Finish(U, "A") : U \in UNION {hosts_lookup(T, "AAAA") : T \in hosts_lookup(S, "A")}}

ipv4_only(S) == {Finish(T, "A") : T \in hosts_lookup(S, "A")}

ipv6_only(S) == {Finish(T, "AAAA") : T \in hosts_lookup(S, "AAAA")}

rt_then_swap(S, first_type, second_type) ==
  UNION {
    IF ~SubReady(T, first_type) THEN {T}
    ELSE LET res == T.query.sub[first_type].out
         IN IF res.ok /\ ~is_empty(res.lookup)
              THEN {SetOut(T, res)}
              ELSE {Finish(U, second_type) : U \in hosts_lookup(T, second_type)}
    : T \in hosts_lookup(S, first_type)}

ipv6_then_ipv4(S) == rt_then_swap(S, "AAAA", "A")

ipv4_then_ipv6_Swapped(S) == rt_then_swap(S, "AAAA", "A")

ipv4_then_ipv6(S) == rt_then_swap(S, "A", "AAAA")

OtherType(t) == IF t = "A" THEN "AAAA" ELSE "A"

Merge_KeepFirst(ips, next_ips) ==
  IF ips.ok THEN ips
  ELSE IF next_ips.ok THEN next_ips
  ELSE ips

Merge_LastError(ips, next_ips) ==
  IF ips.ok /\ next_ips.ok THEN Ok(append(ips.lookup, next_ips.lookup))
  ELSE IF ips.ok THEN ips
  ELSE IF next_ips.ok THEN next_ips
  ELSE next_ips

\* match (ips, next_ips)
Merge(ips, next_ips) ==
  IF ips.ok /\ next_ips.ok THEN Ok(append(ips.lookup, next_ips.lookup))
  ELSE IF ips.ok THEN ips
  ELSE IF next_ips.ok THEN next_ips
  ELSE ips

AwaitRemaining_Swapped(S) ==
  LET first == S.query.sel
      rem == OtherType(first)
  IN {IF SubReady(T, rem)
        THEN SetOut(T, Merge(T.query.sub[rem].out, T.query.sub[first].out))
        ELSE T
      : T \in hosts_lookup(S, rem)}

AwaitRemaining_EarlyReturn(S) ==
  LET first == S.query.sel
      rem == OtherType(first)
      ips == S.query.sub[first].out
  IN IF ips.ok /\ ~is_empty(ips.lookup)
       THEN {SetOut(T, ips) : T \in hosts_lookup(S, rem)}
       ELSE {IF SubReady(T, rem)
               THEN SetOut(T, Merge(T.query.sub[first].out, T.query.sub[rem].out))
               ELSE T
             : T \in hosts_lookup(S, rem)}

\* remaining_query.await and the match on both results
AwaitRemaining(S) ==
  LET first == S.query.sel
      rem == OtherType(first)
  IN {IF SubReady(T, rem)
        THEN SetOut(T, Merge(T.query.sub[first].out, T.query.sub[rem].out))
        ELSE T
      : T \in hosts_lookup(S, rem)}

\* future::select(a, b): polls a, then b, and yields the first found ready
Select(S) ==
  UNION {
    IF SubReady(T, "A") THEN AwaitRemaining([T EXCEPT !.query.sel = "A"])
    ELSE UNION {
      IF SubReady(U, "AAAA") THEN AwaitRemaining([U EXCEPT !.query.sel = "AAAA"])
      ELSE {U}
      : U \in hosts_lookup(T, "AAAA")}
    : T \in hosts_lookup(S, "A")}

ipv4_and_ipv6(S) == IF S.query.sel = "none" THEN Select(S) ELSE AwaitRemaining(S)

strategic_lookup(S) ==
  CASE strategy = "Ipv4Only" -> ipv4_only(S)
    [] strategy = "Ipv6Only" -> ipv6_only(S)
    [] strategy = "Ipv4AndIpv6" -> ipv4_and_ipv6(S)
    [] strategy = "Ipv6thenIpv4" -> ipv6_then_ipv4(S)
    [] strategy = "Ipv4thenIpv6" -> ipv4_then_ipv6(S)

\* --------------------------------------------------------- LookupIpFuture
should_retry_Always(out) == TRUE

should_retry_NotOnEmpty(out) == IF out.ok THEN FALSE ELSE TRUE

should_retry_NotOnErr(out) == IF out.ok THEN is_empty(out.lookup) ELSE FALSE

should_retry_NoAddress(out) ==
  IF out.ok
    THEN \A i \in DOMAIN out.lookup.records :
           out.lookup.records[i].rdata.rtype \notin RecordTypes
    ELSE TRUE

should_retry(out) == IF out.ok THEN is_empty(out.lookup) ELSE TRUE

\* self.query.as_mut().poll(cx)
PollQuery(S) == IF S.query.done THEN {S} ELSE strategic_lookup(S)

\* the Lookup made of the fallback address
FallbackLookup(ip_addr) ==
  LookupOf(QueryNew, <<from_rdata(EmptyName, MAX_TTL, ip_addr)>>)

PopName_Front(S) ==
  [S EXCEPT !.names = Tail(@),
            !.query = NewQuery(Head(S.names)),
            !.attempts = Append(@, [pos |-> Len(names0) - Len(S.names) + 1,
                                    name |-> Head(S.names),
                                    after_done |-> S.query.done])]

\* self.names.pop() and the new strategic lookup; after_done is history: the
\* query it replaces had completed
PopName(S) ==
  [S EXCEPT !.names = SubSeq(@, 1, Len(@) - 1),
            !.query = NewQuery(S.names[Len(S.names)]),
            !.attempts = Append(@, [pos |-> Len(S.names), name |-> S.names[Len(S.names)],
                                    after_done |-> S.query.done])]

NextStep_FallbackFirst(T) ==
  IF ~T.query.done THEN "pending"
  ELSE IF should_retry(T.query.out) /\ T.finally_ip_addr.some THEN "fallback"
  ELSE IF should_retry(T.query.out) /\ T.names # <<>> THEN "retry"
  ELSE "return"

NextStep_Impatient(T) ==
  IF ~T.query.done /\ T.names # <<>> THEN "retry"
  ELSE IF ~T.query.done THEN "pending"
  ELSE IF should_retry(T.query.out) /\ T.names # <<>> THEN "retry"
  ELSE IF should_retry(T.query.out) /\ T.finally_ip_addr.some THEN "fallback"
  ELSE "return"

NextStep_Stalls(T) ==
  IF ~T.query.done THEN "pending"
  ELSE IF should_retry(T.query.out) /\ T.names # <<>> THEN "retry"
  ELSE IF should_retry(T.query.out) /\ T.finally_ip_addr.some THEN "fallback"
  ELSE IF should_retry(T.query.out) THEN "pending"
  ELSE "return"

\* what one pass of the loop of poll does, given the polled query
NextStep(T) ==
  IF ~T.query.done THEN "pending"
  ELSE IF should_retry(T.query.out) /\ T.names # <<>> THEN "retry"
  ELSE IF should_retry(T.query.out) /\ T.finally_ip_addr.some THEN "fallback"
  ELSE "return"

Traced(T) ==
  IF NextStep(T) = "pending" THEN T
  ELSE [T EXCEPT !.last = [kind |-> OutcomeKind(T.query.out),
                           names_left |-> Len(T.names),
                           fallback |-> T.finally_ip_addr.some,
                           act |-> NextStep(T)]]

\* return Poll::Ready(Ok(lookup.into())) with the fallback
ReturnFallback(T) ==
  [T EXCEPT !.finally_ip_addr = None,
            !.result = Ready(Ok(FallbackLookup(T.finally_ip_addr.val)))]

ReturnQuery_InitialError(T) ==
  [T EXCEPT !.result = Ready(IF T.query.out.ok THEN T.query.out ELSE Err(ErrNoNames))]

\* return query.map(|f| f.map(LookupIp::from))
ReturnQuery(T) == [T EXCEPT !.result = Ready(T.query.out)]

\* LookupIpFuture::poll: the states it can leave the future in
RECURSIVE poll(_)
poll(S) ==
  UNION {
    CASE NextStep(T) = "pending" -> {T}
      [] NextStep(T) = "retry" -> poll(PopName(Traced(T)))
      [] NextStep(T) = "fallback" -> {ReturnFallback(Traced(T))}
      [] NextStep(T) = "return" -> {ReturnQuery(Traced(T))}
    : T \in PollQuery(S)}

Strategies == {"Ipv4Only", "Ipv6Only", "Ipv4AndIpv6", "Ipv6thenIpv4", "Ipv4thenIpv6"}

\* LookupIpFuture::lookup
LookupInit ==
  /\ names0 \in SeqsUpTo(NameSet, MaxNames)
  /\ names = names0
  /\ strategy \in Strategies
  /\ hosts \in HostsChoices
  /\ fallback0 \in FallbackChoices
  /\ finally_ip_addr = fallback0
  /\ query = InitQuery
  /\ result = Pending
  /\ attempts = <<>>
  /\ log = <<>>
  /\ last = [kind |-> "none", names_left |-> 0, fallback |-> FALSE, act |-> "none"]
  /\ handle \in Handles

\* the executor polls the future
Poll ==
  /\ ~result.ready
  /\ \E T \in poll(St) :
       /\ names' = T.names
       /\ finally_ip_addr' = T.finally_ip_addr
       /\ query' = T.query
       /\ result' = T.result
       /\ attempts' = T.attempts
       /\ log' = T.log
       /\ last' = T.last
  /\ UNCHANGED <<strategy, hosts, names0, fallback0, handle>>
  /\ UNCHANGED <<iter_vars, doq_vars, code_vars, client_vars, connect_vars>>

\* the caching client completes a lookup that is in flight
ClientComplete ==
  /\ ~result.ready
  /\ \E t \in RecordTypes :
       /\ query.sub[t].st = "wait"
       /\ \E o \in ClientOutcomes(query.name, t) :
            /\ query' = [query EXCEPT !.sub[t] = SubDone("client", o),
                                      !.order = Append(@, t)]
  /\ UNCHANGED <<names, strategy, hosts, finally_ip_addr, result,
                 names0, fallback0, attempts, log, last, handle>>
  /\ UNCHANGED <<iter_vars, doq_vars, code_vars, client_vars, connect_vars>>

Next == Poll \/ ClientComplete

\* no LookupIpFuture has been built
LookupIdle ==
  /\ names0 = <<>> /\ names = <<>>
  /\ strategy = "Ipv4Only"
  /\ hosts = [some |-> FALSE, table |-> {}]
  /\ fallback0 = None /\ finally_ip_addr = None
  /\ query = InitQuery
  /\ result = Pending
  /\ attempts = <<>>
  /\ log = <<>>
  /\ last = [kind |-> "none", names_left |-> 0, fallback |-> FALSE, act |-> "none"]
  /\ handle = "any"

\* ------------------------------------------------------------ DoqErrorCode
\* A u32 is kept as two 16-bit halves, a VarInt (62 bits) as the 30 bits
\* above a u32 and the u32 below: value = top * 2^32 + hi * 2^16 + lo.
U32(hi, lo) == [hi |-> hi, lo |-> lo]

VarIntOf(top, hi, lo) == [top |-> top, hi |-> hi, lo |-> lo]

\* VarInt::from_u32
from_u32(code) == VarIntOf(0, code.hi, code.lo)

NO_ERROR == U32(0, 0)

INTERNAL_ERROR == U32(0, 1)

PROTOCOL_ERROR == U32(0, 2)

REQUEST_CANCELLED == U32(0, 3)

EXCESSIVE_LOAD == U32(0, 4)

\* 0xd098ea5e
ERROR_RESERVED == U32(53400, 59998)

\* the variants of DoqErrorCode without a payload, with their codes
NamedCodes ==
  {<<"NoError", NO_ERROR>>, <<"InternalError", INTERNAL_ERROR>>,
   <<"ProtocolError", PROTOCOL_ERROR>>, <<"RequestCancelled", REQUEST_CANCELLED>>,
   <<"ExcessiveLoad", EXCESSIVE_LOAD>>, <<"ErrorReserved", ERROR_RESERVED>>}

Named(tag) == [tag |-> tag, code |-> NO_ERROR]

Unknown(code) == [tag |-> "Unknown", code |-> code]

VarInt_from_ZeroUnknown(doq_error_code) ==
  IF doq_error_code.tag = "Unknown" THEN from_u32(NO_ERROR)
  ELSE from_u32((CHOOSE nc \in NamedCodes : nc[1] = doq_error_code.tag)[2])

\* impl From<DoqErrorCode> for VarInt
VarInt_from(doq_error_code) ==
  IF doq_error_code.tag = "Unknown" THEN from_u32(doq_error_code.code)
  ELSE from_u32((CHOOSE nc \in NamedCodes : nc[1] = doq_error_code.tag)[2])

DoqErrorCode_from_Truncating(v) ==
  LET code == U32(v.hi, v.lo)
  IN IF \E nc \in NamedCodes : nc[2] = code
       THEN Named((CHOOSE nc \in NamedCodes : nc[2] = code)[1])
       ELSE Unknown(code)

\* impl From<VarInt> for DoqErrorCode
DoqErrorCode_from(v) ==
  IF v.top # 0 THEN Named("ProtocolError")
  ELSE LET code == U32(v.hi, v.lo)
       IN IF \E nc \in NamedCodes : nc[2] = code
            THEN Named((CHOOSE nc \in NamedCodes : nc[2] = code)[1])
            ELSE Unknown(code)

\* the largest of the small codes sampled
MaxCode == 6

\* u16::MAX: the largest 16-bit half, and the largest body of a DoQ frame
U16_MAX == 65535

\* the largest value of the 30 bits a VarInt has above a u32
TOP_MAX == 1073741823

\* the u32 codes sampled: the small ones, ERROR_RESERVED and its
\* neighbours, and the extremes of each half
U32Samples ==
  {U32(hi, lo) : hi \in {0, 1, ERROR_RESERVED.hi, U16_MAX},
                 lo \in (0..MaxCode) \cup {ERROR_RESERVED.lo - 1, ERROR_RESERVED.lo,
                                           ERROR_RESERVED.lo + 1, U16_MAX}}

\* the VarInts sampled: every sampled u32, alone and under non-zero top bits
VarIntSamples ==
  {VarIntOf(top, c.hi, c.lo) : top \in {0, 1, TOP_MAX}, c \in U32Samples}

AsVarInt(v) == [kind |-> "VarInt", v |-> v]

AsCode(e) == [kind |-> "DoqErrorCode", v |-> e]

\* the conversions applied in a row
MaxConversions == 2

CodeInit ==
  /\ doq_error \in {AsVarInt(v) : v \in VarIntSamples}
                   \cup {AsCode(Named(nc[1])) : nc \in NamedCodes}
                   \cup {AsCode(Unknown(c)) : c \in U32Samples}
  /\ conversions = <<>>

\* no error code is being converted
CodeIdle ==
  /\ doq_error = AsCode(Named("NoError"))
  /\ conversions = <<>>

\* DoqErrorCode::from(varint)
FromVarInt ==
  /\ doq_error.kind = "VarInt"
  /\ Len(conversions) < MaxConversions
  /\ doq_error' = AsCode(DoqErrorCode_from(doq_error.v))
  /\ conversions' = Append(conversions, doq_error)
  /\ UNCHANGED <<iter_vars, lookup_vars, doq_vars, client_vars, connect_vars>>

\* VarInt::from(doq_error_code)
IntoVarInt ==
  /\ doq_error.kind = "DoqErrorCode"
  /\ Len(conversions) < MaxConversions
  /\ doq_error' = AsVarInt(VarInt_from(doq_error.v))
  /\ conversions' = Append(conversions, doq_error)
  /\ UNCHANGED <<iter_vars, lookup_vars, doq_vars, client_vars, connect_vars>>

NextCode == FromVarInt \/ IntoVarInt

\* ---------------------------------------------------------------- octets
\* A byte string is kept as its octets up to the last non-zero one (head)
\* and the number of zero octets that follow (pad).
BytesOf(octets, zeros) ==
  LET nz == {i \in DOMAIN octets : octets[i] # 0}
      m == IF nz = {} THEN 0 ELSE CHOOSE i \in nz : \A j \in nz : j <= i
  IN [head |-> SubSeq(octets, 1, m), pad |-> zeros + Len(octets) - m]

\* bytes.len()
BLen(b) == Len(b.head) + b.pad

\* the i-th octet, counted from 1
At(b, i) == IF i <= Len(b.head) THEN b.head[i] ELSE 0

\* the octets off+1 .. off+n, written out
Octets(b, off, n) == [i \in 1..n |-> At(b, off + i)]

\* the first n octets
Take(b, n) ==
  IF n <= Len(b.head) THEN BytesOf(SubSeq(b.head, 1, n), 0)
  ELSE [head |-> b.head, pad |-> n - Len(b.head)]

\* what follows the first n octets
Drop(b, n) ==
  IF n <= Len(b.head) THEN [head |-> SubSeq(b.head, n + 1, Len(b.head)), pad |-> b.pad]
  ELSE [head |-> <<>>, pad |-> b.pad - (n - Len(b.head))]

\* the chunks of one write, as the stream carries them
Concat(a, b) == BytesOf(a.head \o [i \in 1..(IF b.head = <<>> THEN 0 ELSE a.pad) |-> 0] \o b.head,
                       b.pad + (IF b.head = <<>> THEN a.pad ELSE 0))

\* one more than the largest octet
OCTET == 256

\* u16::to_be_bytes
to_be_bytes(n) == BytesOf(<<n \div OCTET, n % OCTET>>, 0)

\* u16::from_be_bytes
from_be_bytes(b) == At(b, 1) * OCTET + At(b, 2)

\* ------------------------------------------------------------ DNS messages
\* A message is its id, its query section (octets) and the number of
\* octets of its other sections.
MessageOf(id, queries, extra) == [id |-> id, queries |-> queries, extra |-> extra]

\* Message::set_id
set_id(message, id) == [message EXCEPT !.id = id]

\* the octets before the query section: the id and the section's length
HEADER_LEN == 3

\* Message::to_vec: the id, big-endian, comes first
to_vec(message) ==
  BytesOf(<<message.id \div OCTET, message.id % OCTET, Len(message.queries)>>
            \o message.queries, message.extra)

ROk(v) == [ok |-> TRUE, val |-> v]

RErr(kind, arg) == [ok |-> FALSE, val |-> [kind |-> kind, arg |-> arg]]

\* Message::from_vec
from_vec(bytes) ==
  IF BLen(bytes) < HEADER_LEN \/ BLen(bytes) < HEADER_LEN + At(bytes, 3)
       \/ Len(bytes.head) > HEADER_LEN + At(bytes, 3)
    THEN RErr("ProtoError", 0)
    ELSE ROk(MessageOf(from_be_bytes(bytes),
                       Octets(bytes, HEADER_LEN, At(bytes, 3)),
                       BLen(bytes) - HEADER_LEN - At(bytes, 3)))

\* DnsResponse::from_buffer
from_buffer(buffer) ==
  LET m == from_vec(buffer)
  IN IF m.ok THEN ROk([message |-> m.val, buffer |-> buffer]) ELSE m

\* a message whose serialization has n octets
MessageOfLen(id, queries, n) == MessageOf(id, queries, n - HEADER_LEN - Len(queries))

\* the ids callers give their messages
MessageIds == {0, 258}

\* the messages callers submit: a short one, one that just fits a frame
\* and one that is one octet too long
Messages ==
  {MessageOfLen(id, <<5>>, HEADER_LEN + 1) : id \in MessageIds}
  \cup {MessageOfLen(id, <<>>, U16_MAX) : id \in MessageIds}
  \cup {MessageOfLen(id, <<5, 0>>, U16_MAX + 1) : id \in MessageIds}

\* -------------------------------------------------------------- QuicStream
NoBytes == [some |-> FALSE, bytes |-> BytesOf(<<>>, 0)]

\* QuicStream::new over a stream just opened for request r
NewStream(r) ==
  [owner |-> r,        \* the request that opened the stream
   writes |-> <<>>,    \* the write_all_chunks calls: chunks and outcome
   fin |-> FALSE,      \* the send half has been finished
   resets |-> <<>>,    \* the reset calls: code and outcome
   rx |-> NoBytes,     \* what the peer sent before closing its half
   read |-> 0,         \* the octets taken from the receive half
   received |-> 0,     \* the calls of receive
   abandoned |-> 0]    \* history: dropped by its request, after so many submissions

Returned(str, ret) == [stream |-> str, ret |-> ret]

\* what the peer sees on the stream: the chunks of the writes that succeeded
RECURSIVE Wire(_)
Wire(writes) ==
  IF writes = <<>> THEN BytesOf(<<>>, 0)
  ELSE LET w == Head(writes)
       IN IF w.ok THEN Concat(Concat(w.chunks[1], w.chunks[2]), Wire(Tail(writes)))
          ELSE Wire(Tail(writes))

send_bytes_Truncating(str, bytes, write_ok) ==
  LET len == to_be_bytes(BLen(bytes) % (U16_MAX + 1))
      written == [str EXCEPT !.writes = Append(@, [chunks |-> <<len, bytes>>, ok |-> write_ok])]
  IN IF write_ok THEN Returned(written, ROk(0))
     ELSE Returned(written, RErr("WriteError", 0))

\* QuicStream::send_bytes; write_ok is the outcome of write_all_chunks
send_bytes(str, bytes, write_ok) ==
  IF BLen(bytes) > U16_MAX
    THEN Returned(str, RErr("MaxBufferSizeExceeded", BLen(bytes)))
    ELSE LET len == to_be_bytes(BLen(bytes))
             written == [str EXCEPT !.writes =
                           Append(@, [chunks |-> <<len, bytes>>, ok |-> write_ok])]
         IN IF write_ok THEN Returned(written, ROk(0))
            ELSE Returned(written, RErr("WriteError", 0))

send_KeepId(str, message, write_ok) == send_bytes(str, to_vec(message), write_ok)

\* QuicStream::send
send(str, message, write_ok) == send_bytes(str, to_vec(set_id(message, 0)), write_ok)

\* QuicStream::finish; finish_ok is the outcome of send_stream.finish()
finish(str, finish_ok) ==
  IF finish_ok THEN Returned([str EXCEPT !.fin = TRUE], ROk(0))
  ELSE Returned(str, RErr("ClosedStream", 0))

\* QuicStream::reset; reset_ok is the outcome of send_stream.reset(code)
reset(str, code, reset_ok) ==
  Returned([str EXCEPT !.resets = Append(@, [code |-> VarInt_from(code), ok |-> reset_ok])],
           IF reset_ok THEN ROk(0) ELSE RErr("QuinnUnknownStreamError", 0))

receive_bytes_LittleEndian(str, reset_ok) ==
  LET avail == Drop(str.rx.bytes, str.read)
      len == At(avail, 2) * OCTET + At(avail, 1)
  IN IF BLen(avail) < 2
       THEN Returned([str EXCEPT !.read = BLen(str.rx.bytes)], RErr("ReadExactError", 0))
     ELSE IF BLen(avail) - 2 < len
       THEN Returned([reset(str, Named("ProtocolError"), reset_ok).stream
                        EXCEPT !.read = BLen(str.rx.bytes)],
                     RErr("ReadExactError", 0))
     ELSE Returned([str EXCEPT !.read = @ + 2 + len], ROk(Take(Drop(avail, 2), len)))

receive_bytes_NoReset(str, reset_ok) ==
  LET avail == Drop(str.rx.bytes, str.read)
      len == from_be_bytes(Take(avail, 2))
  IN IF BLen(avail) < 2 \/ BLen(avail) - 2 < len
       THEN Returned([str EXCEPT !.read = BLen(str.rx.bytes)], RErr("ReadExactError", 0))
     ELSE Returned([str EXCEPT !.read = @ + 2 + len], ROk(Take(Drop(avail, 2), len)))

\* QuicStream::receive_bytes, once the peer has closed its half
receive_bytes(str, reset_ok) ==
  LET avail == Drop(str.rx.bytes, str.read)
      len == from_be_bytes(Take(avail, 2))
  IN IF BLen(avail) < 2
       THEN Returned([str EXCEPT !.read = BLen(str.rx.bytes)], RErr("ReadExactError", 0))
     ELSE IF BLen(avail) - 2 < len
       THEN Returned([reset(str, Named("ProtocolError"), reset_ok).stream
                        EXCEPT !.read = BLen(str.rx.bytes)],
                     RErr("ReadExactError", 0))
     ELSE Returned([str EXCEPT !.read = @ + 2 + len], ROk(Take(Drop(avail, 2), len)))

receive_NoIdCheck(str, reset_ok) ==
  LET got == receive_bytes([str EXCEPT !.received = @ + 1], reset_ok)
  IN IF ~got.ret.ok THEN got
     ELSE IF ~from_vec(got.ret.val).ok THEN Returned(got.stream, from_vec(got.ret.val))
     ELSE Returned(got.stream, from_buffer(got.ret.val))

receive_ResetsOnParseError(str, reset_ok) ==
  LET got == receive_bytes([str EXCEPT !.received = @ + 1], reset_ok)
      message == from_vec(got.ret.val)
  IN IF ~got.ret.ok THEN got
     ELSE IF ~message.ok
       THEN Returned(reset(got.stream, Named("ProtocolError"), reset_ok).stream, message)
     ELSE IF message.val.id # 0
       THEN Returned(reset(got.stream, Named("ProtocolError"), reset_ok).stream,
                     RErr("QuicMessageIdNot0", message.val.id))
     ELSE Returned(got.stream, from_buffer(got.ret.val))

\* QuicStream::receive
receive(str, reset_ok) ==
  LET got == receive_bytes([str EXCEPT !.received = @ + 1], reset_ok)
      message == from_vec(got.ret.val)
  IN IF ~got.ret.ok THEN got
     ELSE IF ~message.ok THEN Returned(got.stream, message)
     ELSE IF message.val.id # 0
       THEN Returned(reset(got.stream, Named("ProtocolError"), reset_ok).stream,
                     RErr("QuicMessageIdNot0", message.val.id))
     ELSE Returned(got.stream, from_buffer(got.ret.val))

\* -------------------------------------------------------- QuicClientStream
\* the requests a client submits
MaxRequests == 2

NotReady == [ready |-> FALSE, out |-> ROk(0)]

ReadyWith(ret) == [ready |-> TRUE, out |-> ret]

\* the future inner_send(connection, message) before its first poll
NewRequest(message) ==
  [message |-> message,
   pc |-> "open_bi",     \* the step of inner_send to run next
   stream |-> 0,         \* the stream it opened, 0 before open_bi
   ops |-> <<>>,         \* history: the steps run, with their outcome
   value |-> ROk(0),     \* what stream.receive() returned
   result |-> NotReady]  \* what the future resolved to

StepAfter_ReceiveFirst(step) ==
  CASE step = "open_bi" -> "send"
    [] step = "send" -> "receive"
    [] step = "receive" -> "finish"
    [] step = "finish" -> "done"

\* inner_send: open_bi, send, finish, receive, in this order
StepAfter(step) ==
  CASE step = "open_bi" -> "send"
    [] step = "send" -> "finish"
    [] step = "finish" -> "receive"
    [] step = "receive" -> "done"

\* a step of inner_send has returned ret: `?` ends the future on an error
Advance(req, step, ret) ==
  LET done == [req EXCEPT !.ops = Append(@, [step |-> step, ret |-> ret]),
                          !.value = IF step = "receive" THEN ret ELSE @]
  IN IF ~ret.ok
       THEN [done EXCEPT !.pc = "done", !.result = ReadyWith(ret)]
       ELSE [done EXCEPT !.pc = StepAfter(step),
                         !.result = IF StepAfter(step) = "done"
                                      THEN ReadyWith(done.value) ELSE @]

open_bi_Reuse(strs, r) == IF strs = <<>> THEN Append(strs, NewStream(r)) ELSE strs

\* connection.open_bi(): a new stream, numbered after those opened before
open_bi(strs, r) == Append(strs, NewStream(r))

\* a length-prefixed frame around a message
Frame(message) == Concat(to_be_bytes(BLen(to_vec(message))), to_vec(message))

\* the id of a response that breaks the DoQ rule
BAD_ID == 7

\* what a peer may send on a stream before closing its half: the octets it
\* got, echoed; a well-formed answer; an answer followed by further octets;
\* an answer with a non-zero id; a frame cut short in its length or in its
\* body; a frame whose body is no DNS message; a frame with no body; nothing
PeerResponses(wire) ==
  {wire,
   Frame(MessageOf(0, <<5>>, 2)),
   Concat(Frame(MessageOf(0, <<5>>, 0)), BytesOf(<<9>>, 0)),
   Frame(MessageOf(BAD_ID, <<5>>, 0)),
   BytesOf(<<1>>, 0),
   Take(Frame(MessageOf(0, <<5>>, 0)), 5),
   BytesOf(<<0, 1, 1>>, 0),
   BytesOf(<<0, 0>>, 0),
   BytesOf(<<>>, 0)}

\* the handle connect_inner builds
NewHandle == [is_shutdown |-> FALSE]

\* the connection of a handle just built; requests_before is history: the
\* requests submitted before the connection was closed
OpenConnection ==
  [closed |-> FALSE, code |-> from_u32(NO_ERROR), reason |-> "", requests_before |-> 0]

\* Connection::close: closes with the code and reason given, unless closed already
close(conn, code, reason, submitted) ==
  IF conn.closed THEN conn
  ELSE [closed |-> TRUE, code |-> code, reason |-> reason, requests_before |-> submitted]

NoCall == [op |-> "none", h |-> 0, was_shutdown |-> FALSE, ret |-> "none"]

\* a method called on handle h, and how it ended
CallRecord(op, h, ret) ==
  [op |-> op, h |-> h, was_shutdown |-> handles[h].is_shutdown, ret |-> ret]

send_message_Unchecked(this, message) ==
  [ret |-> "ok", requests |-> <<NewRequest(message)>>]

\* QuicClientStream::send_message: the requests it adds, none when it panics
send_message(this, message) ==
  IF this.is_shutdown
    THEN [ret |-> "panic", requests |-> <<>>]
    ELSE [ret |-> "ok", requests |-> <<NewRequest(message)>>]

shutdown_Toggle(this, conn, submitted) ==
  [this |-> [this EXCEPT !.is_shutdown = ~@],
   connection |-> close(conn, VarInt_from(Named("NoError")), "Shutdown", submitted),
   ret |-> "ok"]

shutdown_PanicsTwice(this, conn, submitted) ==
  IF this.is_shutdown THEN [this |-> this, connection |-> conn, ret |-> "panic"]
  ELSE [this |-> [this EXCEPT !.is_shutdown = TRUE],
        connection |-> close(conn, VarInt_from(Named("NoError")), "Shutdown", submitted),
        ret |-> "ok"]

shutdown_NoClose(this, conn, submitted) ==
  [this |-> [this EXCEPT !.is_shutdown = TRUE], connection |-> conn, ret |-> "ok"]

\* QuicClientStream::shutdown
shutdown(this, conn, submitted) ==
  [this |-> [this EXCEPT !.is_shutdown = TRUE],
   connection |-> close(conn, VarInt_from(Named("NoError")), "Shutdown", submitted),
   ret |-> "ok"]

\* Stream for QuicClientStream: poll_next
poll_next(this) == IF this.is_shutdown THEN "Ready(None)" ELSE "Ready(Some(Ok(())))"

\* a handle has been built, nothing was called on it
ClientIdle ==
  /\ handles = <<NewHandle>>
  /\ connection = OpenConnection
  /\ last_call = NoCall

\* the messages the client's callers submit
ClientMessages ==
  {MessageOfLen(258, <<5>>, HEADER_LEN + 1), MessageOfLen(258, <<5, 0>>, U16_MAX + 1)}

DoqIdle ==
  /\ requests = <<>>
  /\ streams = <<>>
  /\ calls = <<>>

\* QuicClientStream::send_message
SendMessage ==
  /\ Len(requests) < MaxRequests
  /\ \E message \in ClientMessages :
       requests' = requests \o send_message(handles[1], message).requests
  /\ UNCHANGED <<iter_vars, streams, calls, lookup_vars, code_vars, client_vars, connect_vars>>

\* whether connection.open_bi() can succeed: never on a closed connection
StreamOf_Latest(req) == Len(streams)

\* inner_send: the local `stream`, the QuicStream made from what open_bi returned
StreamOf(req) == req.stream

OpenBiOutcomes == IF connection.closed THEN {FALSE} ELSE BOOLEAN

\* inner_send: connection.open_bi().await?
OpenBi ==
  \E r \in DOMAIN requests : \E opened \in OpenBiOutcomes :
    /\ requests[r].pc = "open_bi"
    /\ IF opened
         THEN /\ streams' = open_bi(streams, r)
              /\ requests' = [requests EXCEPT ![r] =
                    [Advance(@, "open_bi", ROk(0)) EXCEPT !.stream = Len(streams')]]
         ELSE /\ streams' = streams
              /\ requests' = [requests EXCEPT ![r] =
                    Advance(@, "open_bi", RErr("ConnectionError", 0))]
    /\ UNCHANGED <<iter_vars, calls, lookup_vars, code_vars, client_vars, connect_vars>>

\* inner_send: stream.send(message).await?
Send ==
  \E r \in DOMAIN requests : \E write_ok \in BOOLEAN :
    /\ requests[r].pc = "send"
    /\ LET sent == send(streams[StreamOf(requests[r])], requests[r].message, write_ok)
       IN /\ streams' = [streams EXCEPT ![StreamOf(requests[r])] = sent.stream]
          /\ requests' = [requests EXCEPT ![r] = Advance(@, "send", sent.ret)]
    /\ UNCHANGED <<iter_vars, calls, lookup_vars, code_vars, client_vars, connect_vars>>

\* inner_send: stream.finish().await?
FinishStream ==
  \E r \in DOMAIN requests : \E finish_ok \in BOOLEAN :
    /\ requests[r].pc = "finish"
    /\ LET finished == finish(streams[StreamOf(requests[r])], finish_ok)
       IN /\ streams' = [streams EXCEPT ![StreamOf(requests[r])] = finished.stream]
          /\ requests' = [requests EXCEPT ![r] = Advance(@, "finish", finished.ret)]
    /\ UNCHANGED <<iter_vars, calls, lookup_vars, code_vars, client_vars, connect_vars>>

\* the peer answers on a stream it has seen octets on, and closes its half;
\* an answer on a stream whose receive half was dropped reaches nobody
PeerRespond ==
  \E s \in DOMAIN streams :
    /\ ~streams[s].rx.some
    /\ streams[s].abandoned = 0
    /\ \E w \in DOMAIN streams[s].writes : streams[s].writes[w].ok
    /\ \E bytes \in PeerResponses(Wire(streams[s].writes)) :
         streams' = [streams EXCEPT ![s].rx = [some |-> TRUE, bytes |-> bytes]]
    /\ UNCHANGED <<iter_vars, requests, calls, lookup_vars, code_vars, client_vars, connect_vars>>

\* inner_send: stream.receive().await, completing once the peer has answered
Receive ==
  \E r \in DOMAIN requests : \E reset_ok \in BOOLEAN :
    /\ requests[r].pc = "receive"
    /\ streams[StreamOf(requests[r])].rx.some
    /\ LET received == receive(streams[StreamOf(requests[r])], reset_ok)
       IN /\ streams' = [streams EXCEPT ![StreamOf(requests[r])] = received.stream]
          /\ requests' = [requests EXCEPT ![r] = Advance(@, "receive", received.ret)]
    /\ UNCHANGED <<iter_vars, calls, lookup_vars, code_vars, client_vars, connect_vars>>

NextDoq == SendMessage \/ OpenBi \/ Send \/ FinishStream \/ PeerRespond \/ Receive

\* ------------------------------------------------ QuicClientStreamBuilder
\* the handshake timeout, in ticks of the clock
CONNECT_TIMEOUT == 5

DOQ_ALPN == "doq"

\* a rustls::ClientConfig: the ALPN list and enable_early_data
TlsConfig(alpn, early) == [alpn_protocols |-> alpn, enable_early_data |-> early]

AlpnLists == {<<>>, <<"doq">>, <<"h3">>, <<"h3", "doq">>}

TlsConfigs == {TlsConfig(alpn, early) : alpn \in AlpnLists, early \in BOOLEAN}

\* QuicClientStreamBuilder::crypto_config: the Option the builder holds
BuilderConfigs ==
  {[some |-> FALSE, config |-> TlsConfig(<<>>, FALSE)]}
    \cup {[some |-> TRUE, config |-> c] : c \in TlsConfigs}

\* what client_config() may return: an error, or a config with no ALPN list
client_config ==
  {RErr("Msg", 0)} \cup {ROk(TlsConfig(<<>>, early)) : early \in BOOLEAN}

\* the errors a quinn::Connecting may resolve to
ConnectionErrors == {"TimedOut", "Reset", "VersionMismatch"}

\* io::Error::from(ConnectionError): the kind follows the error, which is kept as source
io_from(e) ==
  [io_kind |-> CASE e = "TimedOut" -> "TimedOut"
                 [] e = "Reset" -> "ConnectionReset"
                 [] OTHER -> "Other",
   source |-> e]

\* io::Error::new(kind, message)
io_new(kind, message) == [io_kind |-> kind, source |-> message]

\* the quinn::Connecting future: not made, running, or resolved
NoConnecting == [state |-> "none", out |-> ROk(0)]

Handshaking == [state |-> "running", out |-> ROk(0)]

ConnectingReady(out) == [state |-> "ready", out |-> out]

\* the future connect_inner, with the builder it consumed
ConnectOf(builder_config) ==
  [pc |-> "connect_inner",            \* connect_inner, connect_quic, handshake, done
   crypto_config |-> builder_config,  \* self.crypto_config
   offered |-> <<>>,                  \* ALPN list of the client config installed
   tried_0rtt |-> FALSE,              \* into_0rtt was called
   zero_rtt |-> FALSE,                \* into_0rtt gave a connection
   connecting |-> NoConnecting,
   elapsed |-> 0,                     \* ticks since timeout() was made
   resolutions |-> 0,                 \* history: times the future resolved
   result |-> NotReady]

\* the future resolves
Resolve(fut, out) ==
  [fut EXCEPT !.pc = "done", !.result = ReadyWith(out), !.resolutions = @ + 1]

\* connect_quic: the ALPN list is set when the config has none
alpn_of(crypto_config, protocol) ==
  IF crypto_config.alpn_protocols = <<>> THEN <<protocol>> ELSE crypto_config.alpn_protocols

early_data_AlwaysTried(early_data_enabled, accepted) ==
  [tried |-> TRUE, connected |-> accepted]

\* connect_quic: `if early_data_enabled { match connecting.into_0rtt() ... }`,
\* accepted being whether into_0rtt gives a connection
early_data(early_data_enabled, accepted) ==
  IF early_data_enabled
    THEN [tried |-> TRUE, connected |-> accepted]
    ELSE [tried |-> FALSE, connected |-> FALSE]

connect_with_timeout_ErrorAsTimeout(connecting, elapsed) ==
  IF connecting.state = "ready"
    THEN IF connecting.out.ok
           THEN ReadyWith(connecting.out)
           ELSE ReadyWith(RErr("Io", io_new("TimedOut", "QUIC handshake timed out")))
  ELSE IF elapsed >= CONNECT_TIMEOUT
    THEN ReadyWith(RErr("Io", io_new("TimedOut", "QUIC handshake timed out")))
  ELSE NotReady

\* connect_with_timeout: timeout(CONNECT_TIMEOUT, connecting) polls the
\* handshake first and the timer second
connect_with_timeout(connecting, elapsed) ==
  IF connecting.state = "ready"
    THEN IF connecting.out.ok
           THEN ReadyWith(connecting.out)
           ELSE ReadyWith(RErr("Io", io_from(connecting.out.val.arg)))
  ELSE IF elapsed >= CONNECT_TIMEOUT
    THEN ReadyWith(RErr("Io", io_new("TimedOut", "QUIC handshake timed out")))
  ELSE NotReady

\* no connect is under way
ConnectIdle == connect = ConnectOf([some |-> FALSE, config |-> TlsConfig(<<>>, FALSE)])

\* a builder with any crypto_config starts to connect; there is no handle yet
ConnectInit ==
  /\ \E b \in BuilderConfigs : connect = ConnectOf(b)
  /\ handles = <<>>
  /\ connection = OpenConnection
  /\ last_call = NoCall

\* connect_inner, up to the call of connect_quic
ConnectInner ==
  /\ connect.pc = "connect_inner"
  /\ IF connect.crypto_config.some
       THEN connect' = [connect EXCEPT !.pc = "connect_quic"]
       ELSE \E made \in client_config :
              connect' = IF made.ok
                           THEN [connect EXCEPT !.pc = "connect_quic",
                                                !.crypto_config.config = made.val]
                           ELSE Resolve(connect, made)
  /\ UNCHANGED <<iter_vars, client_vars, doq_vars, lookup_vars, code_vars>>

\* connect_quic, up to the first await
ConnectQuic ==
  /\ connect.pc = "connect_quic"
  /\ \E built \in BOOLEAN, connected \in BOOLEAN, accepted \in BOOLEAN :
       LET crypto_config == connect.crypto_config.config
           early == early_data(crypto_config.enable_early_data, accepted)
           started == [connect EXCEPT
                         !.offered = alpn_of(crypto_config, DOQ_ALPN),
                         !.connecting = Handshaking,
                         !.tried_0rtt = early.tried]
       IN IF ~built
            THEN /\ connect' = Resolve(connect, RErr("NoInitialCipherSuite", 0))
                 /\ UNCHANGED handles
          ELSE IF ~connected
            THEN /\ connect' = Resolve([connect EXCEPT !.offered = started.offered],
                                       RErr("ConnectError", 0))
                 /\ UNCHANGED handles
          ELSE IF early.connected
            THEN /\ connect' = Resolve([started EXCEPT !.zero_rtt = TRUE], ROk(NewHandle))
                 /\ handles' = <<NewHandle>>
          ELSE /\ connect' = [started EXCEPT !.pc = "handshake"]
               /\ UNCHANGED handles
  /\ UNCHANGED <<iter_vars, connection, last_call, doq_vars, lookup_vars, code_vars>>

\* the clock advances while the handshake runs
Tick ==
  /\ connect.pc = "handshake"
  /\ connect.elapsed < CONNECT_TIMEOUT
  /\ connect' = [connect EXCEPT !.elapsed = @ + 1]
  /\ UNCHANGED <<iter_vars, client_vars, doq_vars, lookup_vars, code_vars>>

\* the handshake ends: a connection, or a ConnectionError
HandshakeEnds ==
  /\ connect.pc = "handshake"
  /\ connect.connecting.state = "running"
  /\ \E out \in {ROk(0)} \cup {RErr("ConnectionError", e) : e \in ConnectionErrors} :
       connect' = [connect EXCEPT !.connecting = ConnectingReady(out)]
  /\ UNCHANGED <<iter_vars, client_vars, doq_vars, lookup_vars, code_vars>>

\* connect_with_timeout is polled and is ready; connect_quic and connect_inner
\* pass an error on with `?` and wrap a connection in the handle
PollConnect ==
  /\ connect.pc = "handshake"
  /\ LET polled == connect_with_timeout(connect.connecting, connect.elapsed)
     IN /\ polled.ready
        /\ IF polled.out.ok
             THEN /\ connect' = Resolve(connect, ROk(NewHandle))
                  /\ handles' = <<NewHandle>>
             ELSE /\ connect' = Resolve(connect, polled.out)
                  /\ UNCHANGED handles
  /\ UNCHANGED <<iter_vars, connection, last_call, doq_vars, lookup_vars, code_vars>>

NextConnect == ConnectInner \/ ConnectQuic \/ Tick \/ HandshakeEnds \/ PollConnect

\* ------------------------------------------------------ LookupIp iterators
\* the records of the Lookup iterated over
MaxIterRecs == 4

\* IpAddr::from(Ipv4Addr) / IpAddr::from(Ipv6Addr)
IpAddr(family, addr) == [family |-> family, addr |-> addr]

ip_of_OnlyV4(rdata) ==
  CASE rdata.rtype = "A" -> Some(IpAddr("V4", rdata.addr))
    [] OTHER -> None

\* the closure of find_map in LookupIpIter::next and LookupIpIntoIter::next
ip_of(rdata) ==
  CASE rdata.rtype = "A" -> Some(IpAddr("V4", rdata.addr))
    [] rdata.rtype = "AAAA" -> Some(IpAddr("V6", rdata.addr))
    [] OTHER -> None

\* Iterator::find_map over the records from position pos on: the first
\* record the closure maps to Some, and the position after it
find_map(records, pos) ==
  LET hits == {i \in pos..Len(records) : ip_of(records[i].rdata).some}
      first == CHOOSE i \in hits : \A j \in hits : i <= j
  IN IF hits = {}
       THEN [item |-> None, pos |-> Len(records) + 1]
       ELSE [item |-> ip_of(records[first].rdata), pos |-> first + 1]

\* what the records of a Lookup can hold
IterRData == {RDataOf("A", LocalAddr), RDataOf("AAAA", LocalAddr), RDataOf("CNAME", 0)}

\* lookup_ip.iter() or lookup_ip.into_iter(), before the first next()
IterOf(kind, records) ==
  [kind |-> kind,        \* "iter" or "into_iter"
   records |-> records,  \* the records of the Lookup
   pos |-> 1,            \* the position of the inner iterator
   yielded |-> <<>>,     \* history: the addresses next() returned
   ended |-> FALSE]      \* next() has returned None

IterIdle == ip_iter = IterOf("iter", <<>>)

IterInit ==
  \E kind \in {"iter", "into_iter"} :
    \E records \in SeqsUpTo({from_rdata(HostsName, RespTtl, rd) : rd \in IterRData},
                             MaxIterRecs) :
      ip_iter = IterOf(kind, records)

\* next() on the iterator
IterStep ==
  LET found == find_map(ip_iter.records, ip_iter.pos)
  IN ip_iter' = [ip_iter EXCEPT
                   !.pos = found.pos,
                   !.yielded = IF found.item.some THEN Append(@, found.item.val) ELSE @,
                   !.ended = ~found.item.some]

\* LookupIpIter::next
IterNext ==
  /\ ip_iter.kind = "iter"
  /\ ~ip_iter.ended
  /\ IterStep
  /\ UNCHANGED <<lookup_vars, doq_vars, code_vars, client_vars, connect_vars>>

\* LookupIpIntoIter::next
IntoIterNext ==
  /\ ip_iter.kind = "into_iter"
  /\ ~ip_iter.ended
  /\ IterStep
  /\ UNCHANGED <<lookup_vars, doq_vars, code_vars, client_vars, connect_vars>>

NextIter == IterNext \/ IntoIterNext

\* ------------------------------------------------ QuicClientStream handles
\* the handles: the one built and its clones
MaxHandles == 2

\* the requests submitted through the handles
MaxSends == 1

drop_request_ClosesConnection(req, str, conn, submitted) ==
  [request |-> [req EXCEPT !.pc = "dropped"],
   stream |-> [str EXCEPT !.rx = NoBytes, !.abandoned = submitted],
   connection |-> close(conn, VarIntOf(0, 0, 0), "", submitted)]

\* an inner_send future is dropped at an await: its locals go, the QuicStream
\* and the clone of the connection; neither has a Drop of its own, so the
\* send half is finished as the transport does for a dropped send half, the
\* octets waiting on the receive half are discarded with it, and the
\* connection lives on in the handles
drop_request(req, str, conn, submitted) ==
  [request |-> [req EXCEPT !.pc = "dropped"],
   stream |-> [str EXCEPT !.fin = TRUE, !.rx = NoBytes, !.abandoned = submitted],
   connection |-> conn]

\* the caller drops the future of a request whose stream is open and not
\* yet finished
DropRequest ==
  /\ \E r \in DOMAIN requests :
       /\ requests[r].pc \in {"send", "finish"}
       /\ LET dropped == drop_request(requests[r], streams[StreamOf(requests[r])],
                                      connection, Len(requests))
          IN /\ requests' = [requests EXCEPT ![r] = dropped.request]
             /\ streams' = [streams EXCEPT ![StreamOf(requests[r])] = dropped.stream]
             /\ connection' = dropped.connection
  /\ UNCHANGED <<calls, handles, last_call, lookup_vars, code_vars, connect_vars, iter_vars>>

\* handle.send_message(request) with a short query, on the handle or its clone
SubmitRequest ==
  /\ \E h \in DOMAIN handles :
       LET sent == send_message(handles[h], MessageOfLen(258, <<5>>, HEADER_LEN + 1))
       IN /\ Len(requests) + Len(sent.requests) <= MaxRequests
          /\ requests' = requests \o sent.requests
          /\ last_call' = CallRecord("send_message", h, sent.ret)
  /\ UNCHANGED <<streams, calls, handles, connection, lookup_vars, code_vars,
                 connect_vars, iter_vars>>

\* a handle and one clone of it, nothing called on them
DropInit ==
  /\ handles = <<NewHandle, NewHandle>>
  /\ connection = OpenConnection
  /\ last_call = NoCall

NextDrop ==
  \/ SubmitRequest \/ DropRequest
  \/ OpenBi \/ Send \/ FinishStream \/ PeerRespond \/ Receive

\* handle.clone(): #[derive(Clone)] copies the flag and shares the connection
CloneHandle ==
  /\ Len(handles) < MaxHandles
  /\ \E h \in DOMAIN handles : handles' = Append(handles, handles[h])
  /\ UNCHANGED <<iter_vars, connection, last_call, doq_vars, lookup_vars, code_vars, connect_vars>>

Shutdown_AllHandles ==
  /\ \E h \in DOMAIN handles :
       LET done == shutdown(handles[h], connection, Len(requests))
       IN /\ handles' = [k \in DOMAIN handles |-> done.this]
          /\ connection' = done.connection
          /\ last_call' = CallRecord("shutdown", h, done.ret)
  /\ UNCHANGED <<iter_vars, doq_vars, lookup_vars, code_vars, connect_vars>>

\* handle.shutdown()
Shutdown ==
  /\ \E h \in DOMAIN handles :
       LET done == shutdown(handles[h], connection, Len(requests))
       IN /\ handles' = [handles EXCEPT ![h] = done.this]
          /\ connection' = done.connection
          /\ last_call' = CallRecord("shutdown", h, done.ret)
  /\ UNCHANGED <<iter_vars, doq_vars, lookup_vars, code_vars, connect_vars>>

\* handle.send_message(request)
HandleSend ==
  /\ \E h \in DOMAIN handles : \E message \in ClientMessages :
       LET sent == send_message(handles[h], message)
       IN /\ Len(requests) + Len(sent.requests) <= MaxSends
          /\ requests' = requests \o sent.requests
          /\ last_call' = CallRecord("send_message", h, sent.ret)
  /\ UNCHANGED <<iter_vars, streams, calls, handles, connection, lookup_vars, code_vars, connect_vars>>

\* handle.poll_next(cx)
PollNext ==
  /\ \E h \in DOMAIN handles :
       last_call' = CallRecord("poll_next", h, poll_next(handles[h]))
  /\ UNCHANGED <<iter_vars, handles, connection, doq_vars, lookup_vars, code_vars, connect_vars>>

NextClient ==
  \/ CloneHandle \/ Shutdown \/ HandleSend \/ PollNext
  \/ OpenBi \/ Send \/ FinishStream \/ PeerRespond \/ Receive

\* ------------------------------------------------- QuicStream, used directly
\* the methods called on one stream
MaxCalls == 3

\* a call of a QuicStream method: what it was given, what it returned, and
\* how many writes, resets and octets read the stream had before it
CallOf(op, message, str, returned) ==
  [op |-> op, message |-> message, ret |-> returned.ret,
   writes0 |-> Len(str.writes), resets0 |-> Len(str.resets), read0 |-> str.read,
   read |-> returned.stream.read - str.read]

NoMessage == MessageOf(0, <<>>, 0)

\* a stream handed to QuicStream::new, no method called yet
StreamInit ==
  /\ requests = <<>>
  /\ streams = <<NewStream(0)>>
  /\ calls = <<>>

\* stream.send(message)
StreamSend ==
  /\ Len(calls) < MaxCalls
  /\ \E message \in Messages : \E write_ok \in BOOLEAN :
       LET sent == send(streams[1], message, write_ok)
       IN /\ streams' = [streams EXCEPT ![1] = sent.stream]
          /\ calls' = Append(calls, CallOf("send", message, streams[1], sent))
  /\ UNCHANGED <<iter_vars, requests, lookup_vars, code_vars, client_vars, connect_vars>>

\* stream.finish()
StreamFinish ==
  /\ Len(calls) < MaxCalls
  /\ \E finish_ok \in BOOLEAN :
       LET finished == finish(streams[1], finish_ok)
       IN /\ streams' = [streams EXCEPT ![1] = finished.stream]
          /\ calls' = Append(calls, CallOf("finish", NoMessage, streams[1], finished))
  /\ UNCHANGED <<iter_vars, requests, lookup_vars, code_vars, client_vars, connect_vars>>

\* stream.receive(), completing once the peer has answered
StreamReceive ==
  /\ Len(calls) < MaxCalls
  /\ streams[1].rx.some
  /\ \E reset_ok \in BOOLEAN :
       LET received == receive(streams[1], reset_ok)
       IN /\ streams' = [streams EXCEPT ![1] = received.stream]
          /\ calls' = Append(calls, CallOf("receive", NoMessage, streams[1], received))
  /\ UNCHANGED <<iter_vars, requests, lookup_vars, code_vars, client_vars, connect_vars>>

NextStream == StreamSend \/ StreamFinish \/ PeerRespond \/ StreamReceive


Init == LookupInit /\ DoqIdle /\ CodeIdle /\ ClientIdle /\ ConnectIdle /\ IterIdle

Spec == Init /\ [][Next]_vars

\* the executor polls a future it was handed until it resolves, and the
\* client completes every lookup it was asked for
LookupFairness ==
  /\ WF_vars(Poll)
  /\ WF_vars(ClientComplete)

\* the futures whose resolution is followed to the end: no hosts table, and
\* either a client whose lookups all fail, so that every name is tried, or
\* one record type, whatever the client answers
LookupLiveInit ==
  /\ LookupInit
  /\ ~hosts.some
  /\ handle = "failing" \/ strategy = "Ipv4Only"

InitLive == LookupLiveInit /\ DoqIdle /\ CodeIdle /\ ClientIdle /\ ConnectIdle /\ IterIdle

SpecLive == InitLive /\ [][Next]_vars /\ LookupFairness

InitCode == LookupIdle /\ DoqIdle /\ CodeInit /\ ClientIdle /\ ConnectIdle /\ IterIdle

SpecCode == InitCode /\ [][NextCode]_vars

InitDoq == LookupIdle /\ DoqIdle /\ CodeIdle /\ ClientIdle /\ ConnectIdle /\ IterIdle

SpecDoq == InitDoq /\ [][NextDoq]_vars

InitStream == LookupIdle /\ StreamInit /\ CodeIdle /\ ClientIdle /\ ConnectIdle /\ IterIdle

SpecStream == InitStream /\ [][NextStream]_vars

InitClient == LookupIdle /\ DoqIdle /\ CodeIdle /\ ClientIdle /\ ConnectIdle /\ IterIdle

SpecClient == InitClient /\ [][NextClient]_vars

InitDrop == LookupIdle /\ DoqIdle /\ CodeIdle /\ DropInit /\ ConnectIdle /\ IterIdle

SpecDrop == InitDrop /\ [][NextDrop]_vars

InitConnect == LookupIdle /\ DoqIdle /\ CodeIdle /\ ConnectInit /\ IterIdle

SpecConnect == InitConnect /\ [][NextConnect]_vars

\* the runtime polls a future that can make progress, and the timer runs
ConnectFairness ==
  /\ WF_vars(ConnectInner)
  /\ WF_vars(ConnectQuic)
  /\ WF_vars(Tick)
  /\ WF_vars(PollConnect)

SpecConnectLive == SpecConnect /\ ConnectFairness

InitIter ==
  LookupIdle /\ DoqIdle /\ CodeIdle /\ ClientIdle /\ ConnectIdle /\ IterInit

SpecIter == InitIter /\ [][NextIter]_vars

\* ----------------------------------------------------------------- claims
Resolved == result.ready

AllNamesAttempted ==
  /\ Len(attempts) = Len(names0)
  /\ {attempts[k].pos : k \in DOMAIN attempts} = DOMAIN names0

\* C1: built with a non-empty names list and no fallback IP, over a handle
\* whose every lookup errors, the future resolves to an error, and when it
\* resolves exactly one strategic lookup per name has been started, none of
\* them twice.
NoStaticHost == \A i \in DOMAIN names0 : \A t \in RecordTypes :
                  ~(hosts.some /\ QueryOf(names0[i], t) \in hosts.table)

C1_AllErrorsResolveToError ==
  (Resolved /\ names0 # <<>> /\ fallback0 = None /\ handle = "failing" /\ NoStaticHost)
    => (~result.out.ok /\ AllNamesAttempted)

C1_Witness ==
  /\ Resolved /\ Len(names0) = MaxNames /\ fallback0 = None
  /\ handle = "failing" /\ NoStaticHost
  /\ ~result.out.ok /\ Len(attempts) = MaxNames

\* C2: with a fallback IP and attempts that all end empty or in error, the
\* future resolves to Ok of a Lookup of exactly one record (empty owner
\* name, TTL MAX_TTL, rdata the fallback IP), and the fallback is returned
\* only when every name has been attempted.
IsFallbackLookup(out) ==
  /\ out.ok
  /\ Len(out.lookup.records) = 1
  /\ out.lookup.records[1].name = EmptyName
  /\ out.lookup.records[1].ttl = MAX_TTL
  /\ out.lookup.records[1].rdata = fallback0.val

LastAttemptRetryable == last.kind \in {"empty", "err"}

C2_FallbackAfterAllNames ==
  /\ (Resolved /\ fallback0.some /\ LastAttemptRetryable)
        => (IsFallbackLookup(result.out) /\ AllNamesAttempted /\ names = <<>>)
  /\ (Resolved /\ fallback0.some /\ IsFallbackLookup(result.out))
        => (AllNamesAttempted /\ names = <<>>)

C2_Witness ==
  /\ Resolved /\ fallback0.some /\ Len(names0) = MaxNames
  /\ last.kind = "empty" /\ IsFallbackLookup(result.out)

\* C3: the k-th strategic lookup is for the k-th name from the end of the
\* list given at construction (LIFO), so no name is attempted before a name
\* at a higher index.
C3_LifoOrder ==
  /\ \A k \in DOMAIN attempts :
        /\ attempts[k].pos = Len(names0) - k + 1
        /\ attempts[k].name = names0[Len(names0) - k + 1]
  /\ query.kind = "strat" =>
        /\ attempts # <<>>
        /\ query.name = names0[Len(names0) - Len(attempts) + 1]
  /\ \A i \in DOMAIN log : \E k \in DOMAIN attempts :
        log[i].q.name = names0[Len(names0) - k + 1]

C3_Witness ==
  /\ Len(attempts) = 2 /\ names0[1] # names0[2]
  /\ attempts[1].name = names0[2] /\ attempts[2].name = names0[1]

\* C4: when the current attempt completes with a non-empty Lookup the future
\* resolves to exactly that Lookup: no further name is popped or attempted
\* and the fallback IP stays unused.
NonEmptyOk(out) == out.ok /\ ~is_empty(out.lookup)

C4_NonEmptySuccessReturned ==
  (query.kind = "strat" /\ query.done /\ NonEmptyOk(query.out)) =>
    /\ result = Ready(query.out)
    /\ names = SubSeq(names0, 1, Len(names0) - Len(attempts))
    /\ attempts[Len(attempts)].name = query.name
    /\ finally_ip_addr = fallback0
    /\ last.act = "return"

C4_Witness ==
  /\ query.kind = "strat" /\ query.done /\ NonEmptyOk(query.out)
  /\ Resolved /\ names # <<>> /\ fallback0.some /\ Len(attempts) = 1

\* C5: an attempt that completes with Ok(empty lookup) leads to the same
\* next step as one that completes with Err: the next name is popped and
\* tried if one remains, else the fallback is returned if one was given,
\* else the attempt's own result is returned.
C5_EmptyLikeError ==
  /\ last.kind \in {"empty", "err"} =>
        last.act = IF last.names_left > 0 THEN "retry"
                   ELSE IF last.fallback THEN "fallback"
                   ELSE "return"
  /\ last.act = "retry" =>
        /\ ~Resolved /\ query.kind = "strat" /\ ~query.done
        /\ Len(names) = last.names_left - 1
        /\ Len(attempts) = Len(names0) - Len(names)
  /\ Resolved =>
        /\ last.act = "fallback" => IsFallbackLookup(result.out)
        /\ last.act = "return" => result.out = query.out
        /\ last.act \in {"fallback", "return"}

C5_Witness ==
  /\ last.kind = "empty" /\ last.act = "retry" /\ last.names_left = 1
  /\ Len(attempts) = 2 /\ ~Resolved

\* C6: the future resolves to Err only when the names list is exhausted and
\* no fallback IP is available, and in that state the result is exactly the
\* outcome of the last attempted lookup (its error, or its empty lookup).
C6_ErrorOnlyWhenExhausted ==
  /\ (Resolved /\ ~result.out.ok) =>
        /\ names = <<>> /\ AllNamesAttempted
        /\ fallback0 = None /\ ~finally_ip_addr.some
  /\ (Resolved /\ names = <<>> /\ fallback0 = None) =>
        /\ result.out = query.out
        /\ names0 # <<>> =>
              /\ query.kind = "strat"
              /\ attempts[Len(attempts)].pos = 1
              /\ attempts[Len(attempts)].name = query.name

C6_Witness ==
  /\ Resolved /\ Len(names0) = MaxNames /\ names = <<>> /\ fallback0 = None
  /\ last.kind = "err" /\ ~result.out.ok /\ result.out.err = "timed out"
  /\ query.sub.A.out.err = "timed out"

Count(r, recs) == Cardinality({i \in DOMAIN recs : recs[i] = r})

Range(recs) == {recs[i] : i \in DOMAIN recs}

IsUnion(recs, xs, ys) ==
  \A r \in Range(recs) \cup Range(xs) \cup Range(ys) :
    Count(r, recs) = Count(r, xs) + Count(r, ys)

Ips(out) == LookupIpIter(out.lookup.records)

C8_MergedResult ==
  (strategy = "Ipv4AndIpv6" /\ query.kind = "strat" /\ query.done) =>
    LET a == query.sub.A.out
        b == query.sub.AAAA.out
    IN /\ query.sub.A.st = "done" /\ query.sub.AAAA.st = "done"
       /\ (a.ok /\ b.ok) =>
            /\ query.out.ok
            /\ IsUnion(query.out.lookup.records, a.lookup.records, b.lookup.records)
       /\ (NonEmptyOk(a) /\ ~NonEmptyOk(b)) => (query.out.ok /\ Ips(query.out) = Ips(a))
       /\ (NonEmptyOk(b) /\ ~NonEmptyOk(a)) => (query.out.ok /\ Ips(query.out) = Ips(b))
       /\ (~a.ok /\ ~b.ok) => ~query.out.ok

C8_Witness ==
  /\ strategy = "Ipv4AndIpv6" /\ query.kind = "strat" /\ query.done
  /\ query.order = <<"AAAA", "A">>
  /\ query.sub.A.via = "client" /\ query.sub.AAAA.via = "client"
  /\ Len(query.sub.A.out.lookup.records) = 2
  /\ Len(query.sub.AAAA.out.lookup.records) = 2
  /\ Len(query.out.lookup.records) = 4
  /\ Count(from_rdata(query.name, RespTtl, RDataOf("CNAME", 0)), query.out.lookup.records) = 2

\* C9 (as claimed): in Ipv4AndIpv6, when both sub-lookups succeed non-empty the
\* merged result lists the A records before the AAAA records, also when the
\* AAAA lookup completes first.
BothNonEmpty ==
  /\ strategy = "Ipv4AndIpv6" /\ query.kind = "strat" /\ query.done
  /\ NonEmptyOk(query.sub.A.out) /\ NonEmptyOk(query.sub.AAAA.out)

C9_AFirstAlways ==
  BothNonEmpty =>
    query.out.lookup.records =
      query.sub.A.out.lookup.records \o query.sub.AAAA.out.lookup.records

\* C9 (amended): in Ipv4AndIpv6, when both sub-lookups succeed non-empty the
\* merged result lists the records of the sub-lookup that select yielded
\* first and then those of the other; the A records come first whenever the
\* A lookup completed first, and the AAAA records come first only if the
\* AAAA lookup completed first.
C9_FirstReadyFirst ==
  BothNonEmpty =>
    /\ query.sel \in RecordTypes
    /\ query.out.lookup.records =
         query.sub[query.sel].out.lookup.records
           \o query.sub[OtherType(query.sel)].out.lookup.records
    /\ query.order[1] = "A" => query.sel = "A"

C9_Witness ==
  /\ BothNonEmpty /\ query.order = <<"AAAA", "A">> /\ query.sel = "AAAA"
  /\ query.out.lookup.records[1].rdata.rtype = "AAAA"
  /\ query.out.lookup.records[Len(query.out.lookup.records)].rdata.rtype = "A"

\* C10: in Ipv4thenIpv6 the A lookup is issued first; the AAAA lookup is
\* issued only after the A lookup has completed, and only if that was empty
\* or an error; a non-empty A result is returned with no AAAA lookup; when
\* the AAAA lookup is issued its outcome is the result.  Ipv6thenIpv4 is the
\* same with A and AAAA exchanged.
ThenOrder(first_type, second_type) ==
  LET f == query.sub[first_type]
      g == query.sub[second_type]
  IN /\ f.st # "new"
     /\ g.st # "new" => (f.st = "done" /\ ~NonEmptyOk(f.out))
     /\ (f.st = "done" /\ NonEmptyOk(f.out)) => g.st = "new"
     /\ query.done =>
          IF g.st = "new"
            THEN f.st = "done" /\ NonEmptyOk(f.out) /\ query.out = f.out
            ELSE g.st = "done" /\ query.out = g.out

C10_FirstThenSecond ==
  query.kind = "strat" =>
    /\ strategy = "Ipv4thenIpv6" => ThenOrder("A", "AAAA")
    /\ strategy = "Ipv6thenIpv4" => ThenOrder("AAAA", "A")

C10_Witness ==
  /\ strategy = "Ipv4thenIpv6" /\ query.kind = "strat" /\ query.done
  /\ query.sub.A.st = "done" /\ ~query.sub.A.out.ok
  /\ query.sub.AAAA.via = "client" /\ NonEmptyOk(query.sub.AAAA.out)
  /\ query.out = query.sub.AAAA.out

\* C11: the record types queried for an attempted name are fixed by the
\* strategy: Ipv4Only issues exactly one query for it, of type A, and none
\* of type AAAA; Ipv6Only exactly one of type AAAA and none of type A; every
\* other strategy at most one A query and at most one AAAA query; and every
\* query of an attempt is for the name of that attempt.
LogOf(k, t, via) ==
  {i \in DOMAIN log : log[i].att = k /\ log[i].q.rtype = t /\ log[i].via = via}

\* the hosts_lookup futures polled for record type t in attempt k
Queries(k, t) ==
  Cardinality(LogOf(k, t, IF hosts.some THEN "hosts" ELSE "client"))

C11_TypesByStrategy ==
  /\ \A i \in DOMAIN log :
        /\ log[i].att \in DOMAIN attempts
        /\ log[i].q.name = attempts[log[i].att].name
  /\ \A k \in DOMAIN attempts :
        /\ \A t \in RecordTypes :
              /\ Queries(k, t) <= 1
              /\ Cardinality(LogOf(k, t, "client")) <= 1
        /\ strategy = "Ipv4Only" => (Queries(k, "A") = 1 /\ Queries(k, "AAAA") = 0)
        /\ strategy = "Ipv6Only" => (Queries(k, "AAAA") = 1 /\ Queries(k, "A") = 0)

C11_Witness ==
  /\ strategy = "Ipv4Only" /\ Resolved /\ Len(attempts) = MaxNames
  /\ ~hosts.some
  /\ Len(log) = MaxNames
  /\ \A i \in DOMAIN log : log[i].q.rtype = "A" /\ log[i].via = "client"

\* C12: while a hosts table is configured, a query for which
\* lookup_static_host returns Some(lookup) never reaches the caching client
\* and has that lookup as its result; the client is called only when no
\* hosts table is configured or the table returns None for the query.
StaticHit(q) == hosts.some /\ lookup_static_host(hosts.table, q).some

C12_HostsShortCircuit ==
  /\ \A i \in DOMAIN log : log[i].via = "client" => ~StaticHit(log[i].q)
  /\ query.kind = "strat" =>
        \A t \in RecordTypes :
          LET q == QueryOf(query.name, t)
              sub == query.sub[t]
          IN sub.st # "new" =>
               IF StaticHit(q)
                 THEN /\ sub = SubDone("hosts", Ok(lookup_static_host(hosts.table, q).val))
                      /\ LogOf(Len(attempts), t, "client") = {}
                 ELSE /\ sub.via = "client"
                      /\ LogOf(Len(attempts), t, "client") # {}

C12_Witness ==
  /\ hosts.some /\ strategy = "Ipv4AndIpv6" /\ query.kind = "strat" /\ query.done
  /\ query.sub.A.via = "hosts" /\ query.sub.AAAA.via = "client"
  /\ query.sub.A.out = Ok(lookup_static_host(hosts.table, QueryOf(query.name, "A")).val)
  /\ LogOf(Len(attempts), "A", "client") = {}
  /\ Cardinality(LogOf(Len(attempts), "AAAA", "client")) = 1

\* C13: every DoQ request runs the steps open stream, send, finish, receive
\* in this order on its stream; receive is never run before the send half
\* has been finished; when a step fails its error is the request's result
\* and no later step is run on that stream; a resolved request runs no
\* further step.
InnerSendSteps == <<"open_bi", "send", "finish", "receive">>

StepsOf(req) == [i \in DOMAIN req.ops |-> req.ops[i].step]

HasRun(req, step) == \E i \in DOMAIN req.ops : req.ops[i].step = step

FailedAt(req, step) ==
  /\ req.ops # <<>>
  /\ req.ops[Len(req.ops)].step = step
  /\ ~req.ops[Len(req.ops)].ret.ok

StepsInOrder(req) ==
  /\ StepsOf(req) = SubSeq(InnerSendSteps, 1, Len(req.ops))
  /\ \A i \in DOMAIN req.ops : i < Len(req.ops) => req.ops[i].ret.ok
  /\ HasRun(req, "receive") => (req.stream # 0 /\ streams[req.stream].fin)
  /\ (req.ops # <<>> /\ ~req.ops[Len(req.ops)].ret.ok) =>
        (req.pc = "done" /\ req.result = ReadyWith(req.ops[Len(req.ops)].ret))
  /\ req.result.ready =>
        (req.pc = "done" /\ req.ops # <<>> /\ req.result.out = req.ops[Len(req.ops)].ret)
  /\ FailedAt(req, "send") =>
        (~streams[req.stream].fin /\ streams[req.stream].received = 0)
  /\ FailedAt(req, "finish") =>
        (~streams[req.stream].fin /\ streams[req.stream].received = 0)

C13_StepsInOrder ==
  /\ [](\A r \in DOMAIN requests : StepsInOrder(requests[r]))
  /\ [][\A r \in DOMAIN requests :
          requests[r].result.ready => requests'[r] = requests[r]]_vars

C13_Witness ==
  \E r1, r2 \in DOMAIN requests :
    /\ StepsOf(requests[r1]) = InnerSendSteps
    /\ requests[r1].result.ready /\ requests[r1].result.out.ok
    /\ FailedAt(requests[r2], "finish")
    /\ requests[r2].result.out = RErr("ClosedStream", 0)
    /\ streams[requests[r2].stream].rx.some

\* C14: every request opens exactly one new bidirectional stream, writes
\* exactly one query on it and reads at most one response from it; no
\* stream is used by two requests, and a failed request is not sent again
\* on another stream.
StreamsOf(r) == {s \in DOMAIN streams : streams[s].owner = r}

UsersOf(s) == {r \in DOMAIN requests : requests[r].stream = s}

C14_OneStreamPerRequest ==
  /\ \A r \in DOMAIN requests :
        LET req == requests[r]
        IN /\ Cardinality(StreamsOf(r)) <= 1
           /\ IF \E i \in DOMAIN req.ops : req.ops[i].step = "open_bi" /\ req.ops[i].ret.ok
                THEN StreamsOf(r) = {req.stream}
                ELSE StreamsOf(r) = {} /\ req.stream = 0
           /\ (\E i \in DOMAIN req.ops : req.ops[i].step = "send" /\ req.ops[i].ret.ok) =>
                /\ Len(streams[req.stream].writes) = 1
                /\ streams[req.stream].writes[1].ok
                /\ from_vec(streams[req.stream].writes[1].chunks[2])
                     = ROk(set_id(req.message, 0))
  /\ \A s \in DOMAIN streams :
        /\ Cardinality(UsersOf(s)) = 1
        /\ Len(streams[s].writes) <= 1
        /\ streams[s].received <= 1

C14_Witness ==
  /\ Len(requests) = MaxRequests /\ Len(streams) = MaxRequests
  /\ \E r1, r2 \in DOMAIN requests :
        /\ requests[r1].stream # requests[r2].stream
        /\ FailedAt(requests[r1], "send")
        /\ streams[requests[r1].stream].writes # <<>>
        /\ requests[r2].result.ready /\ requests[r2].result.out.ok
        /\ streams[requests[r2].stream].received = 1

\* the stream the QuicStream methods are called on
TheStream == streams[1]

IsCall(i, op) == i \in DOMAIN calls /\ calls[i].op = op

\* the writes and the resets the stream has had once call i has returned
WritesAfter(i) == IF i < Len(calls) THEN calls[i + 1].writes0 ELSE Len(TheStream.writes)

ResetsAfter(i) == IF i < Len(calls) THEN calls[i + 1].resets0 ELSE Len(TheStream.resets)

\* C15: every DNS message that QuicStream::send writes to a stream has
\* message id 0 on the wire, whatever id the caller's message carried, and
\* is otherwise the caller's message.
C15_WireIdZero ==
  /\ \A s \in DOMAIN streams : \A w \in DOMAIN streams[s].writes :
        LET body == streams[s].writes[w].chunks[2]
        IN /\ At(body, 1) = 0 /\ At(body, 2) = 0
           /\ from_vec(body).ok /\ from_vec(body).val.id = 0
  /\ \A i \in DOMAIN calls :
        (IsCall(i, "send") /\ WritesAfter(i) > calls[i].writes0) =>
          from_vec(TheStream.writes[WritesAfter(i)].chunks[2]).val
            = [calls[i].message EXCEPT !.id = 0]

C15_Witness ==
  \E i \in DOMAIN calls :
    /\ IsCall(i, "send") /\ calls[i].message.id = 258 /\ calls[i].ret.ok
    /\ calls[i].message.queries # <<>>
    /\ TheStream.writes[WritesAfter(i)].ok
    /\ from_vec(TheStream.writes[WritesAfter(i)].chunks[2]).val.id = 0

\* the octets the receive half holds when call i starts, its length
\* prefix, and the body the prefix announces
RxAt(i) == Drop(TheStream.rx.bytes, calls[i].read0)

PrefixAt(i) == At(RxAt(i), 1) * 256 + At(RxAt(i), 2)

WellFramed(i) == BLen(RxAt(i)) >= 2 /\ BLen(RxAt(i)) - 2 >= PrefixAt(i)

BodyAt(i) == Take(Drop(RxAt(i), 2), PrefixAt(i))

\* call i is a receive that finds a well-framed message that parses and
\* has a non-zero id
NonZeroId(i) ==
  /\ IsCall(i, "receive") /\ WellFramed(i)
  /\ from_vec(BodyAt(i)).ok /\ from_vec(BodyAt(i)).val.id # 0

ReturnsIdNot0(i) == calls[i].ret = RErr("QuicMessageIdNot0", from_vec(BodyAt(i)).val.id)

\* the reset calls made during call i
ResetsBy(i) == (calls[i].resets0 + 1)..ResetsAfter(i)

\* C16 (as claimed): when receive() reads a well-framed message that parses
\* and has a non-zero id, the stream is reset with code PROTOCOL_ERROR
\* (0x2), receive() returns QuicMessageIdNot0(id), and no response is
\* delivered.
C16_AlwaysReset ==
  \A i \in DOMAIN calls :
    NonZeroId(i) =>
      /\ ReturnsIdNot0(i)
      /\ \E k \in ResetsBy(i) :
            TheStream.resets[k].ok /\ TheStream.resets[k].code = VarIntOf(0, 0, 2)

\* C16 (amended): when receive() reads a well-framed message that parses and
\* has a non-zero id, it calls reset once, with code PROTOCOL_ERROR (0x2),
\* returns QuicMessageIdNot0(id) whether or not that reset succeeded, and
\* delivers no response; the stream is reset, with code 0x2, exactly when
\* the reset call succeeded.
C16_ResetAttempted ==
  \A i \in DOMAIN calls :
    NonZeroId(i) =>
      /\ ReturnsIdNot0(i)
      /\ ~calls[i].ret.ok
      /\ ResetsBy(i) = {calls[i].resets0 + 1}
      /\ TheStream.resets[calls[i].resets0 + 1].code = VarIntOf(0, 0, 2)

C16_Witness ==
  \E i \in DOMAIN calls :
    /\ NonZeroId(i) /\ calls[i].ret = RErr("QuicMessageIdNot0", BAD_ID)
    /\ TheStream.fin
    /\ TheStream.resets = <<[code |-> VarIntOf(0, 0, 2), ok |-> TRUE]>>

\* C17: for a body of n <= 65535 octets send writes, in one write, the two
\* octets of n, big-endian, and then the n octets of the body; for
\* n > 65535 it fails with MaxBufferSizeExceeded(n) and writes nothing.
C17_LengthPrefix ==
  \A i \in DOMAIN calls :
    IsCall(i, "send") =>
      LET body == to_vec([calls[i].message EXCEPT !.id = 0])
          n == BLen(body)
      IN IF n <= 65535
           THEN /\ WritesAfter(i) = calls[i].writes0 + 1
                /\ LET w == TheStream.writes[WritesAfter(i)]
                   IN /\ Len(w.chunks) = 2
                      /\ BLen(w.chunks[1]) = 2
                      /\ At(w.chunks[1], 1) * 256 + At(w.chunks[1], 2) = n
                      /\ w.chunks[2] = body
                      /\ w.ok = calls[i].ret.ok
           ELSE /\ WritesAfter(i) = calls[i].writes0
                /\ calls[i].ret = RErr("MaxBufferSizeExceeded", n)

C17_Witness ==
  \E i, j \in DOMAIN calls :
    /\ IsCall(i, "send") /\ calls[i].ret.ok
    /\ BLen(to_vec(calls[i].message)) = 65535
    /\ TheStream.writes[WritesAfter(i)].chunks[1] = BytesOf(<<255, 255>>, 0)
    /\ IsCall(j, "send") /\ calls[j].ret = RErr("MaxBufferSizeExceeded", 65536)
    /\ Len(TheStream.writes) = 1

\* C18: when the peer sends back the octets written by send(M), M's
\* serialization having at most 65535 octets, receive() yields M with its
\* id set to 0 and takes exactly 2 + L octets from the stream, L being the
\* length prefix.
Echoed(i, j) ==
  /\ IsCall(i, "send") /\ calls[i].ret.ok /\ calls[i].writes0 = 0
  /\ IsCall(j, "receive") /\ calls[j].read0 = 0
  /\ LET w == TheStream.writes[1]
         wire == Concat(w.chunks[1], w.chunks[2])
     IN /\ BLen(TheStream.rx.bytes) >= BLen(wire)
        /\ Take(TheStream.rx.bytes, BLen(wire)) = wire

C18_RoundTrip ==
  \A i, j \in DOMAIN calls :
    Echoed(i, j) =>
      /\ calls[j].ret.ok
      /\ calls[j].ret.val.message = [calls[i].message EXCEPT !.id = 0]
      /\ calls[j].ret.val.message.queries = calls[i].message.queries
      /\ calls[j].read = 2 + PrefixAt(j)
      /\ PrefixAt(j) = BLen(to_vec(calls[i].message))

C18_Witness ==
  \E i, j \in DOMAIN calls :
    /\ Echoed(i, j) /\ calls[i].message.id = 258
    /\ TheStream.rx.bytes = Wire(TheStream.writes)
    /\ calls[j].ret.ok /\ calls[j].ret.val.message.id = 0
    /\ calls[j].read = 65537

\* the value before the i-th conversion; the current one for i past the last
ValueAt(i) == IF i <= Len(conversions) THEN conversions[i] ELSE doq_error

\* C19: for every 32-bit code c, DoqErrorCode::from(VarInt::from(c)) encodes
\* back to the VarInt of c, for the codes of the named variants and for
\* those that decode to Unknown(c).
C19_CodeRoundTrip ==
  \A i \in DOMAIN conversions :
    (conversions[i].kind = "VarInt" /\ conversions[i].v.top = 0) =>
      /\ ValueAt(i + 1).kind = "DoqErrorCode"
      /\ ValueAt(i + 1).v.tag = "Unknown" =>
            ValueAt(i + 1).v.code = U32(conversions[i].v.hi, conversions[i].v.lo)
      /\ i + 1 \in DOMAIN conversions => ValueAt(i + 2) = conversions[i]

C19_Witness ==
  /\ Len(conversions) = 2
  /\ conversions[1] = AsVarInt(VarIntOf(0, 53400, 59998))
  /\ conversions[2] = AsCode(Named("ErrorReserved"))
  /\ doq_error = conversions[1]

\* C20: every VarInt above u32::MAX, up to the 62-bit limit, decodes to
\* DoqErrorCode::ProtocolError, never to Unknown and never to the code of
\* its low 32 bits.
C20_WideIsProtocolError ==
  \A i \in DOMAIN conversions :
    (conversions[i].kind = "VarInt" /\ conversions[i].v.top > 0) =>
      ValueAt(i + 1) = AsCode(Named("ProtocolError"))

C20_Witness ==
  /\ conversions = <<AsVarInt(VarIntOf(1, 0, 0))>>
  /\ doq_error = AsCode(Named("ProtocolError"))

\* the seven codes RFC 9250 names, 0x5 being DOQ_UNSPECIFIED_ERROR
RfcNamedCodes ==
  {U32(0, 0), U32(0, 1), U32(0, 2), U32(0, 3), U32(0, 4), U32(0, 5), U32(53400, 59998)}

\* C21: each of the values 0x0, 0x1, 0x2, 0x3, 0x4, 0x5 and 0xd098ea5e
\* decodes to a named variant of its own, never to Unknown, and every other
\* 32-bit value c decodes to Unknown(c).
C21_SevenNamedCodes ==
  \A i \in DOMAIN conversions :
    (conversions[i].kind = "VarInt" /\ conversions[i].v.top = 0) =>
      LET c == U32(conversions[i].v.hi, conversions[i].v.lo)
      IN IF c \in RfcNamedCodes
           THEN /\ ValueAt(i + 1).v.tag # "Unknown"
                /\ VarInt_from(ValueAt(i + 1).v) = conversions[i].v
           ELSE ValueAt(i + 1) = AsCode(Unknown(c))

\* a call of the method op on a handle has just returned or panicked
JustCalled(op) ==
  /\ last_call' # last_call
  /\ last_call'.op = op

\* C22: is_shutdown is false on the handle built, no call ever takes it from
\* true to false, shutdown() leaves it true and the connection closed, and a
\* shutdown() of a handle already shut down changes nothing
C22_ShutdownMonotonic ==
  /\ ~handles[1].is_shutdown
  /\ [][/\ \A h \in DOMAIN handles : handles[h].is_shutdown => handles'[h].is_shutdown
        /\ JustCalled("shutdown") =>
              /\ handles'[last_call'.h].is_shutdown
              /\ connection'.closed
              /\ last_call'.was_shutdown =>
                    handles' = handles /\ connection' = connection]_vars

C22_Witness ==
  /\ last_call.op = "shutdown"
  /\ last_call.was_shutdown
  /\ handles[last_call.h].is_shutdown
  /\ connection.closed

\* C23: send_message panics on a handle shut down, adding no request and
\* opening no stream, and returns on an active one; poll_next gives Ready(None)
\* on a handle shut down and Ready(Some(Ok(()))) on an active one, never Pending
C23_ShutdownGuards ==
  [][/\ JustCalled("send_message") =>
          IF last_call'.was_shutdown
            THEN /\ last_call'.ret = "panic"
                 /\ requests' = requests
                 /\ streams' = streams
            ELSE /\ last_call'.ret = "ok"
                 /\ Len(requests') = Len(requests) + 1
     /\ JustCalled("poll_next") =>
          /\ last_call'.ret # "Pending"
          /\ last_call'.ret = IF last_call'.was_shutdown
                                THEN "Ready(None)" ELSE "Ready(Some(Ok(())))"]_vars

C23_Witness ==
  /\ last_call.op = "send_message"
  /\ last_call.was_shutdown
  /\ last_call.ret = "panic"
  /\ \E h \in DOMAIN handles : ~handles[h].is_shutdown

\* C24: shutdown() on a handle already shut down panics
C24_DoubleShutdownPanics ==
  (last_call.op = "shutdown" /\ last_call.was_shutdown) => last_call.ret = "panic"

\* C24, amended: shutdown() on a handle already shut down returns normally; the
\* flag stays true and the connection stays closed as the first close left it
C24_DoubleShutdownReturns ==
  /\ []((last_call.op = "shutdown" /\ last_call.was_shutdown) => last_call.ret = "ok")
  /\ [][(JustCalled("shutdown") /\ last_call'.was_shutdown) =>
          /\ handles'[last_call'.h].is_shutdown
          /\ connection.closed
          /\ connection' = connection]_vars

C24_Witness ==
  /\ last_call.op = "shutdown"
  /\ last_call.was_shutdown
  /\ last_call.ret = "ok"
  /\ connection.reason = "Shutdown"

\* the requests submitted after the connection was closed
RequestsAfterClose ==
  {r \in DOMAIN requests : connection.closed /\ r > connection.requests_before}

\* C25: once any handle is shut down the one connection is closed with
\* NO_ERROR (0x0) and the reason "Shutdown", and no request submitted after
\* that, through whichever handle, resolves to a response
C25_SharedConnection ==
  /\ (\E h \in DOMAIN handles : handles[h].is_shutdown) =>
        /\ connection.closed
        /\ connection.code = VarIntOf(0, 0, 0)
        /\ connection.reason = "Shutdown"
  /\ \A r \in RequestsAfterClose :
        /\ requests[r].stream = 0
        /\ requests[r].result.ready => ~requests[r].result.out.ok

C25_Witness ==
  /\ connection.closed
  /\ last_call.op = "send_message"
  /\ ~last_call.was_shutdown
  /\ \E r \in RequestsAfterClose :
        requests[r].result.ready /\ ~requests[r].result.out.ok

\* what receive() yields from the octets the peer sent on a stream
AnswerOn(s) ==
  receive([streams[s] EXCEPT !.read = 0, !.received = 0, !.resets = <<>>], TRUE).ret

\* C26: with several requests in flight each request reads its response from
\* the stream it opened itself and resolves to what the peer sent on that
\* stream, in whatever order the streams were opened and answered
C26_OwnStreamResponse ==
  /\ \A r \in DOMAIN requests :
        HasRun(requests[r], "receive") =>
          /\ requests[r].stream \in DOMAIN streams
          /\ streams[requests[r].stream].owner = r
          /\ streams[requests[r].stream].rx.some
          /\ streams[requests[r].stream].received = 1
          /\ requests[r].value = AnswerOn(requests[r].stream)
          /\ requests[r].result = ReadyWith(requests[r].value)
  /\ \A s \in DOMAIN streams :
        /\ streams[s].received > 0 => HasRun(requests[streams[s].owner], "receive")
        /\ Len(streams[s].writes) > 0 => HasRun(requests[streams[s].owner], "send")

C26_Witness ==
  \E r1, r2 \in DOMAIN requests :
    /\ requests[r1].stream # 0
    /\ requests[r1].stream < requests[r2].stream
    /\ requests[r1].pc = "receive"
    /\ ~streams[requests[r1].stream].rx.some
    /\ HasRun(requests[r2], "receive")
    /\ requests[r2].result.ready /\ requests[r2].result.out.ok

\* the handshake was started and no 0-RTT connection was taken
HandshakeAwaited == connect.connecting.state # "none" /\ ~connect.zero_rtt

TimedOutError == RErr("Io", io_new("TimedOut", "QUIC handshake timed out"))

C28_AlpnIsDoq ==
  connect.connecting.state # "none" => connect.offered = <<DOQ_ALPN>>

\* the positions of the A and AAAA records of the Lookup iterated over
AddressPositions ==
  {i \in DOMAIN ip_iter.records : ip_iter.records[i].rdata.rtype \in {"A", "AAAA"}}

\* the position of the k-th A or AAAA record
AddressPosition(k) ==
  CHOOSE i \in AddressPositions : Cardinality({j \in AddressPositions : j <= i}) = k

\* C29: both iterators yield the addresses of the A and AAAA records of the
\* Lookup, one per record and in record order, skip every other record, and
\* return None only when no A or AAAA record is left
C29_IteratorsYieldAddresses ==
  /\ Len(ip_iter.yielded) <= Cardinality(AddressPositions)
  /\ \A k \in DOMAIN ip_iter.yielded :
        LET rdata == ip_iter.records[AddressPosition(k)].rdata
        IN /\ ip_iter.yielded[k].addr = rdata.addr
           /\ ip_iter.yielded[k].family = IF rdata.rtype = "A" THEN "V4" ELSE "V6"
  /\ ip_iter.ended => Len(ip_iter.yielded) = Cardinality(AddressPositions)
  /\ \A i \in AddressPositions :
        i < ip_iter.pos => Cardinality({j \in AddressPositions : j <= i}) <= Len(ip_iter.yielded)

C29_Witness ==
  /\ ip_iter.kind = "into_iter"
  /\ ip_iter.ended
  /\ Len(ip_iter.records) = MaxIterRecs
  /\ ip_iter.records[1].rdata.rtype = "CNAME"
  /\ ip_iter.records[3].rdata.rtype = "CNAME"
  /\ Len(ip_iter.yielded) = 2
  /\ ip_iter.yielded[1] = ip_iter.yielded[2]

\* the DNS queries of the future that are in flight, by record type
InFlight == {t \in RecordTypes : query.sub[t].st = "wait"}

\* C30: a strategic lookup is created only when no query of the one before
\* it is in flight, the queries of one attempt are all issued before any of
\* the next, the queries in flight belong to the one current strategic
\* lookup and its candidate name, and two are in flight only under
\* Ipv4AndIpv6
C30_SequentialAttempts ==
  /\ [](/\ \A k \in DOMAIN attempts : attempts[k].after_done
        /\ Cardinality(InFlight) <= 2
        /\ Cardinality(InFlight) = 2 => strategy = "Ipv4AndIpv6"
        /\ InFlight # {} =>
              /\ query.kind = "strat" /\ ~query.done
              /\ query.name = attempts[Len(attempts)].name
        /\ \A t \in InFlight :
              \E i \in DOMAIN log :
                log[i] = [q |-> QueryOf(query.name, t), via |-> "client",
                          att |-> Len(attempts)]
        /\ \A i, j \in DOMAIN log : i < j => log[i].att <= log[j].att)
  /\ [][Len(attempts') > Len(attempts) => InFlight = {}]_vars

C30_Witness ==
  /\ strategy = "Ipv4AndIpv6"
  /\ Cardinality(InFlight) = 2
  /\ Len(attempts) = MaxNames
  /\ \E i \in DOMAIN log : log[i].att = 1 /\ log[i].via = "client"

\* the current strategic lookup is one of ipv4_and_ipv6
InBoth == strategy = "Ipv4AndIpv6" /\ query.kind = "strat"

\* C31: a lookup of ipv4_and_ipv6 is complete only when both of its
\* sub-lookups are, whatever the first result was; a sub-lookup that was
\* started stays started and a completed one keeps its result for as long as
\* the strategic lookup is the current one, and the future never resolves
\* with a sub-lookup in flight
C31_BothAwaited ==
  /\ []((InBoth /\ query.done) =>
          /\ query.sub.A.st = "done" /\ query.sub.AAAA.st = "done"
          /\ query.sel \in RecordTypes
          /\ query.order \in {<<"A", "AAAA">>, <<"AAAA", "A">>})
  /\ []((InBoth /\ result.ready) => InFlight = {})
  /\ [][(InBoth /\ Len(attempts') = Len(attempts)) =>
          \A t \in RecordTypes :
            /\ query.sub[t].st # "new" => query'.sub[t].st # "new"
            /\ query.sub[t].st = "done" => query'.sub[t] = query.sub[t]]_vars

C31_Witness ==
  /\ InBoth /\ query.done /\ result.ready
  /\ query.sel = "AAAA" /\ query.order = <<"AAAA", "A">>
  /\ NonEmptyOk(query.sub.AAAA.out)
  /\ query.sub.A.via = "client" /\ ~query.sub.A.out.ok
  /\ result.out = query.sub.AAAA.out

\* a lookup of ipv4_and_ipv6 is complete, with the results of its sub-lookups
BothDone == InBoth /\ query.done

OneErrOneOk(t) == ~query.sub[t].out.ok /\ query.sub[OtherType(t)].out.ok

BothErr == ~query.sub.A.out.ok /\ ~query.sub.AAAA.out.ok

\* C32 (as claimed): when one sub-lookup errors and the other succeeds the
\* result is the successful lookup, and when both error the result is the
\* error of the sub-lookup that completed first, in every completion order
C32_FirstCompletedError ==
  BothDone =>
    /\ \A t \in RecordTypes : OneErrOneOk(t) => query.out = query.sub[OtherType(t)].out
    /\ BothErr => query.out = query.sub[query.order[1]].out

\* C32 (amended): when one sub-lookup errors and the other succeeds the
\* result is the successful lookup, empty or not; when both error the result
\* is the error of the sub-lookup select yielded first, which is the A
\* lookup whenever it is ready at that poll, and the AAAA lookup only if it
\* completed first and was found ready with the A lookup still pending
C32_FirstYieldedError ==
  BothDone =>
    /\ \A t \in RecordTypes : OneErrOneOk(t) => query.out = query.sub[OtherType(t)].out
    /\ BothErr =>
          /\ query.out = query.sub[query.sel].out
          /\ query.order[1] = "A" => query.sel = "A"
          /\ query.sel = "AAAA" => query.order[1] = "AAAA"

C32_Witness ==
  /\ BothDone /\ BothErr
  /\ query.sub.A.out # query.sub.AAAA.out
  /\ query.order = <<"AAAA", "A">>
  /\ query.sel = "A"
  /\ query.out = query.sub.A.out

\* call i is a receive that reads the length prefix and finds fewer body
\* octets than it announces
ShortBody(i) ==
  /\ IsCall(i, "receive")
  /\ BLen(RxAt(i)) >= 2
  /\ BLen(RxAt(i)) - 2 < PrefixAt(i)

ReadError == RErr("ReadExactError", 0)

\* C33 (as claimed): when receive() has read the length and the read of the
\* body fails, the stream is reset with PROTOCOL_ERROR and receive() returns
\* the read error
C33_ShortBodyResets ==
  \A i \in DOMAIN calls :
    ShortBody(i) =>
      /\ calls[i].ret = ReadError
      /\ \E k \in ResetsBy(i) :
            TheStream.resets[k].ok /\ TheStream.resets[k].code = VarIntOf(0, 0, 2)

\* C33 (amended): when receive() has read the length and the read of the
\* body fails, it calls reset once, with PROTOCOL_ERROR (0x2), and returns
\* the read error whether or not the reset succeeded; the stream is reset
\* exactly when the reset call succeeded
C33_ShortBodyResetAttempted ==
  \A i \in DOMAIN calls :
    ShortBody(i) =>
      /\ calls[i].ret = ReadError
      /\ ResetsBy(i) = {calls[i].resets0 + 1}
      /\ TheStream.resets[calls[i].resets0 + 1].code = VarIntOf(0, 0, 2)

C33_Witness ==
  \E i \in DOMAIN calls :
    /\ ShortBody(i) /\ PrefixAt(i) > 0
    /\ calls[i].ret = ReadError
    /\ TheStream.resets = <<[code |-> VarIntOf(0, 0, 2), ok |-> FALSE]>>

\* endpoint.connect gave a Connecting
HandshakeStarted == connect.connecting.state # "none"

\* C34: into_0rtt is called exactly when early data is enabled in the TLS
\* config; when it gives a connection connect resolves to the handle in that
\* step, with the handshake still running and no timer started; when it is
\* refused, or early data is disabled, connect awaits the handshake under
\* CONNECT_TIMEOUT and resolves when the handshake ends or the timeout expires
C34_ZeroRtt ==
  /\ [](HandshakeStarted =>
          /\ connect.tried_0rtt <=> connect.crypto_config.config.enable_early_data
          /\ connect.zero_rtt => connect.tried_0rtt
          /\ IF connect.zero_rtt
               THEN /\ connect.result = ReadyWith(ROk([is_shutdown |-> FALSE]))
                    /\ connect.connecting.state = "running"
                    /\ connect.elapsed = 0
               ELSE /\ connect.pc \in {"handshake", "done"}
                    /\ connect.elapsed <= CONNECT_TIMEOUT
                    /\ connect.result.ready =>
                          \/ connect.connecting.state = "ready"
                          \/ connect.elapsed = CONNECT_TIMEOUT)
  /\ [][(connect.pc = "connect_quic" /\ HandshakeStarted' /\ ~connect'.zero_rtt)
          => (connect'.pc = "handshake" /\ ~connect'.result.ready)]_vars
  /\ (HandshakeStarted /\ ~connect.zero_rtt) ~> connect.result.ready

C34_Witness ==
  /\ HandshakeStarted
  /\ connect.tried_0rtt /\ ~connect.zero_rtt
  /\ connect.connecting.state = "running"
  /\ connect.result.ready
  /\ connect.elapsed = CONNECT_TIMEOUT

\* the request whose future this step drops, 0 when the step drops none
DroppedNow ==
  IF \E r \in DOMAIN requests : requests[r].pc # "dropped" /\ requests'[r].pc = "dropped"
    THEN CHOOSE r \in DOMAIN requests :
           requests[r].pc # "dropped" /\ requests'[r].pc = "dropped"
    ELSE 0

\* the requests submitted after some request was dropped
AfterADrop ==
  {r \in DOMAIN requests :
     \E s \in DOMAIN streams : streams[s].abandoned > 0 /\ r > streams[s].abandoned}

\* C35: dropping the future of a request whose stream is open and not yet
\* finished changes nothing but that request and its stream: the connection
\* stays open, the other requests and streams are as they were, and a
\* request submitted later, on the handle or on its clone, gets a stream of
\* its own
C35_DropLeavesConnectionUsable ==
  /\ [](/\ ~connection.closed
        /\ OpenBiOutcomes = BOOLEAN
        /\ \A r \in DOMAIN requests :
              requests[r].pc = "dropped" =>
                /\ ~requests[r].result.ready
                /\ streams[requests[r].stream].abandoned > 0
                /\ streams[requests[r].stream].owner = r
        /\ \A r \in AfterADrop :
              requests[r].stream # 0 =>
                /\ streams[requests[r].stream].owner = r
                /\ streams[requests[r].stream].abandoned = 0
                     \/ requests[r].pc = "dropped")
  /\ [][DroppedNow # 0 =>
          /\ requests[DroppedNow].pc \in {"send", "finish"}
          /\ connection' = connection /\ handles' = handles
          /\ \A r \in DOMAIN requests \ {DroppedNow} : requests'[r] = requests[r]
          /\ \A s \in DOMAIN streams \ {requests[DroppedNow].stream} :
                streams'[s] = streams[s]]_vars

C35_Witness ==
  \E r1, r2 \in DOMAIN requests :
    /\ requests[r1].pc = "dropped"
    /\ r2 \in AfterADrop /\ r2 = Len(requests)
    /\ last_call.op = "send_message" /\ last_call.h = 2
    /\ HasRun(requests[r2], "receive")
    /\ requests[r2].result.ready /\ requests[r2].result.out.ok
    /\ requests[r2].stream > requests[r1].stream

C37_FlagPerHandle ==
  /\ [][JustCalled("shutdown") =>
          \A k \in DOMAIN handles \ {last_call'.h} : handles'[k] = handles[k]]_vars
  /\ [][(JustCalled("poll_next") /\ connection.closed /\ ~last_call'.was_shutdown) =>
          last_call'.ret = "Ready(Some(Ok(())))"]_vars
  /\ [][(JustCalled("send_message") /\ connection.closed /\ ~last_call'.was_shutdown) =>
          /\ last_call'.ret = "ok"
          /\ Len(requests') = Len(requests) + 1]_vars
  /\ [](\A r \in RequestsAfterClose :
          /\ requests[r].stream = 0
          /\ requests[r].result.ready =>
                requests[r].result.out = RErr("ConnectionError", 0))

C37_Witness ==
  /\ handles[1].is_shutdown
  /\ Len(handles) = MaxHandles /\ ~handles[MaxHandles].is_shutdown
  /\ connection.closed
  /\ last_call.op = "send_message" /\ last_call.h = MaxHandles
  /\ last_call.ret = "ok"
  /\ \E r \in RequestsAfterClose :
        requests[r].result.ready /\ requests[r].result.out = RErr("ConnectionError", 0)

\* call i is a receive that cannot read the two octets of the length
ShortLength(i) == IsCall(i, "receive") /\ BLen(RxAt(i)) < 2

\* call i is a receive that reads a whole frame whose body is no DNS message
Unparsable(i) == IsCall(i, "receive") /\ WellFramed(i) /\ ~from_vec(BodyAt(i)).ok

\* C38: receive() calls reset in two cases only, a body cut short and a
\* message with a non-zero id, and once; a length that cannot be read and a
\* body that does not parse, an empty body included, give their own error
\* and no reset; and when the reset fails receive() returns the error that
\* led to it, never the error of the reset
C38_ResetCases ==
  \A i \in DOMAIN calls :
    IsCall(i, "receive") =>
      /\ ResetsBy(i) # {} <=> (ShortBody(i) \/ NonZeroId(i))
      /\ Cardinality(ResetsBy(i)) <= 1
      /\ ShortLength(i) => calls[i].ret = ReadError
      /\ Unparsable(i) => calls[i].ret = RErr("ProtoError", 0)
      /\ calls[i].ret # RErr("QuinnUnknownStreamError", 0)
      /\ \A k \in ResetsBy(i) :
            ~TheStream.resets[k].ok =>
              calls[i].ret = IF ShortBody(i) THEN ReadError
                             ELSE RErr("QuicMessageIdNot0", from_vec(BodyAt(i)).val.id)

C38_Witness ==
  /\ \E i \in DOMAIN calls :
        /\ Unparsable(i) /\ PrefixAt(i) = 0
        /\ calls[i].ret = RErr("ProtoError", 0)
  /\ \E i \in DOMAIN calls : ShortLength(i)
  /\ TheStream.resets = <<>>

\* the attempt completed with records, none of them an address
RecordsNoAddress ==
  /\ query.done /\ query.out.ok
  /\ ~is_empty(query.out.lookup)
  /\ \A i \in DOMAIN query.out.lookup.records :
        query.out.lookup.records[i].rdata.rtype \notin RecordTypes

\* C39: an attempt that succeeds with records ends the retries whether or not
\* a record is an address: the future resolves to that lookup, its iterator
\* yields no address, and the names not yet tried and the fallback address
\* stay unused
C39_RetryOnRecordsNotAddresses ==
  RecordsNoAddress =>
    /\ result.ready /\ result.out = query.out
    /\ last.act = "return"
    /\ ~find_map(result.out.lookup.records, 1).item.some
    /\ Len(attempts) + Len(names) = Len(names0)
    /\ finally_ip_addr = fallback0

C39_Witness ==
  /\ RecordsNoAddress
  /\ result.ready
  /\ names # <<>>
  /\ finally_ip_addr.some
  /\ Len(attempts) = MaxNames - 1

\* the record type a strategy of two steps asks for first
FirstType == IF strategy = "Ipv6thenIpv4" THEN "AAAA" ELSE "A"

\* C40: the hosts table is asked per name and record type. A call of the
\* client is preceded by the hosts consultation for that very query; under
\* Ipv4AndIpv6 every type the table has no entry for goes to the client,
\* whatever the table holds for the other type; under Ipv4thenIpv6 and
\* Ipv6thenIpv4 a static hit for the first type means no client call and no
\* second step for that name, and a second step consults the table for the
\* second type before the client
C40_HostsPerNameAndType ==
  \A k \in DOMAIN attempts :
    /\ hosts.some =>
          \A i \in DOMAIN log :
            (log[i].att = k /\ log[i].via = "client") =>
              /\ i > 1
              /\ log[i - 1] = [log[i] EXCEPT !.via = "hosts"]
    /\ strategy = "Ipv4AndIpv6" =>
          \A t \in RecordTypes :
            IF StaticHit(QueryOf(attempts[k].name, t))
              THEN LogOf(k, t, "client") = {} /\ LogOf(k, t, "hosts") # {}
              ELSE LogOf(k, t, "client") # {}
    /\ strategy \in {"Ipv4thenIpv6", "Ipv6thenIpv4"} =>
          /\ StaticHit(QueryOf(attempts[k].name, FirstType)) =>
                /\ \A t \in RecordTypes : LogOf(k, t, "client") = {}
                /\ LogOf(k, OtherType(FirstType), "hosts") = {}
          /\ (hosts.some /\ LogOf(k, OtherType(FirstType), "client") # {}) =>
                /\ LogOf(k, OtherType(FirstType), "hosts") # {}
                /\ LogOf(k, FirstType, "client") # {}

C40_Witness ==
  /\ strategy = "Ipv6thenIpv4" /\ hosts.some
  /\ query.kind = "strat" /\ query.done
  /\ query.sub.AAAA.via = "client" /\ query.sub.A.via = "hosts"
  /\ LogOf(Len(attempts), "AAAA", "client") # {}
  /\ LogOf(Len(attempts), "A", "client") = {}
  /\ \E k \in DOMAIN attempts : LogOf(k, "A", "client") # {}

====
